---- MODULE Spec2Model ----
(***************************************************************************)
(* pgproxy: a proxy that fans many PostgreSQL client connections in to one *)
(* shared backend connection and rewrites transaction control statements   *)
(* into savepoint operations while a test is running.                      *)
(*                                                                         *)
(* The model follows src/pgproxy: messages.py (wire format and the         *)
(* synthetic message constructors), filters.py (Filter, FrontendFilter,    *)
(* BackendFilter), protocol.py (FilteringProtocol) and proxy.py            *)
(* (PostgresClientProtocol, PGProxyProtocol).  Wire data are sequences of  *)
(* byte values 0..255; a message is the record its parser leaves behind.   *)
(*                                                                         *)
(* The state is one backend session from its construction to its death,    *)
(* and the clients attached to it.  The framer hands whole messages to     *)
(* messageReceived, one per read.                                          *)
(***************************************************************************)
EXTENDS Integers, Sequences, FiniteSets, TLC

(***************************************************************************)
(* Bounds of the model.                                                    *)
(***************************************************************************)
MaxClients == 2
MaxSavepoints == 2
MaxDrop == 3
MaxSpoof == 1
MaxAuth == 3
MaxClock == 1
MaxFrames == 2
MaxSeq == 3
MaxStack == 4
MaxSessions == 2

(***************************************************************************)
(* Bytes and strings.                                                      *)
(***************************************************************************)
\* The printable ASCII characters, 0x20 .. 0x7e, in code order (the grave
\* accent, which no message of the model holds, by its name).
Chr == <<" ", "!", "\"", "#", "$", "%", "&", "'", "(", ")", "*", "+", ",",
    "-", ".", "/", "0", "1", "2", "3", "4", "5", "6", "7", "8", "9", ":",
    ";", "<", "=", ">", "?", "@", "A", "B", "C", "D", "E", "F", "G", "H",
    "I", "J", "K", "L", "M", "N", "O", "P", "Q", "R", "S", "T", "U", "V",
    "W", "X", "Y", "Z", "[", "\\", "]", "^", "_", "grave", "a", "b", "c", "d",
    "e", "f", "g", "h", "i", "j", "k", "l", "m", "n", "o", "p", "q", "r",
    "s", "t", "u", "v", "w", "x", "y", "z", "{", "|", "}", "~">>

\* ord(c) of a printable character.
Ord(c) == 31 + (CHOOSE i \in 1..Len(Chr) : Chr[i] = c)

\* The function f over 1..n as a sequence value.
AsSeq(f) == <<>> \o f

\* The byte string of a sequence of characters.
B(s) == AsSeq([i \in 1..Len(s) |-> Ord(s[i])])

\* One-character string of a printable byte (a message type code).
TypeCode(b) == Chr[b - 31]

RECURSIVE Flatten(_)
\* ''.join(parts)
Flatten(parts) ==
    IF parts = <<>> THEN <<>> ELSE Head(parts) \o Flatten(Tail(parts))

\* s[i:] with a 0-based start, as Python slices.
From(s, i) == IF i >= Len(s) THEN <<>> ELSE SubSeq(s, i + 1, Len(s))

\* s[:n]
Upto(s, n) == IF n <= 0 THEN <<>> ELSE SubSeq(s, 1, IF n < Len(s) THEN n ELSE Len(s))

\* str.lower() on ASCII bytes.
Lower(s) ==
    AsSeq([i \in 1..Len(s) |-> IF s[i] >= 65 /\ s[i] <= 90 THEN s[i] + 32 ELSE s[i]])

\* str.startswith
StartsWith(s, p) == Len(s) >= Len(p) /\ SubSeq(s, 1, Len(p)) = p

\* p in s
Contains(s, p) ==
    \E i \in 0..(Len(s) - Len(p)) : SubSeq(s, i + 1, i + Len(p)) = p

\* str.replace(a, b) for single characters.
Replace(s, a, b) == AsSeq([i \in 1..Len(s) |-> IF s[i] = a THEN b ELSE s[i]])

RECURSIVE Digits(_)
\* The decimal digits of a natural number.
Digits(n) ==
    IF n < 10 THEN <<48 + n>> ELSE Digits(n \div 10) \o <<48 + (n % 10)>>

RECURSIVE Split(_, _)
\* s.split(sep) for a one-byte separator.
Split(s, sep) ==
    IF \A i \in 1..Len(s) : s[i] # sep THEN <<s>>
    ELSE LET k == CHOOSE i \in 1..Len(s) :
                      s[i] = sep /\ \A j \in 1..(i - 1) : s[j] # sep
         IN  <<SubSeq(s, 1, k - 1)>> \o Split(From(s, k), sep)

(***************************************************************************)
(* data.py: network-order integers.                                        *)
(***************************************************************************)
pack_int32(n) ==
    <<(n \div 16777216) % 256, (n \div 65536) % 256, (n \div 256) % 256, n % 256>>

\* unpack_int16_from(buf, p), p 0-based.
unpack_int16_from(buf, p) == buf[p + 1] * 256 + buf[p + 2]

\* unpack_int32_from(buf, p), p 0-based; the lengths of the model fit 31 bits.
unpack_int32_from(buf, p) ==
    ((buf[p + 1] * 256 + buf[p + 2]) * 256 + buf[p + 3]) * 256 + buf[p + 4]

(***************************************************************************)
(* messages.py: a message as its parser leaves it.  buffer holds the wire  *)
(* bytes truncated to length, data the body behind the header.             *)
(***************************************************************************)
Message(t, length, buffer, pos) ==
    [type |-> t, length |-> length, buffer |-> Upto(buffer, length),
     data |-> From(Upto(buffer, length), pos)]

\* FrontendMessage.parse_special_header: the type of a typeless message,
\* from the two halves of its 32-bit code.
special_type(hi, lo) ==
    IF hi = 32903 /\ lo = 28930 THEN "Cancel"
    ELSE IF hi = 32903 /\ lo = 28931 THEN "SSLRequest"
    ELSE IF hi = 3 /\ lo < 2 THEN "Startup"
    ELSE "Unknown"

\* Message.consume on the bytes of one complete message: parse_header, then
\* truncate(length) and parse_body.
consume(bytes) ==
    IF bytes[1] # 0
    THEN Message(TypeCode(bytes[1]), unpack_int32_from(bytes, 1) + 1, bytes, 5)
    ELSE Message(special_type(unpack_int16_from(bytes, 4), unpack_int16_from(bytes, 6)),
                 unpack_int16_from(bytes, 2), bytes, 8)

\* Message.serialize
serialize(m) == Upto(m.buffer, m.length)

\* The same messages joined last to first.
serializeAll_reversed(ms) ==
    Flatten(AsSeq([i \in 1..Len(ms) |-> serialize(ms[Len(ms) + 1 - i])]))

\* ''.join([m.serialize() for m in messages])
serializeAll(ms) == Flatten(AsSeq([i \in 1..Len(ms) |-> serialize(ms[i])]))

\* BackendMessage.parse_S: name, value = data.split('\x00')[:2]
name_of(m) == Split(m.data, 0)[1]
value_of(m) == Split(m.data, 0)[2]

\* getattr(x, 'name', ''): only a ParameterStatus has a name.
getattr_name(m) == IF m.type = "S" THEN name_of(m) ELSE <<>>

\* BackendMessage.parse_Z
transaction_status(m) ==
    LET c == m.buffer[6]
    IN  IF c = Ord("I") THEN "idle"
        ELSE IF c = Ord("E") THEN "failed"
        ELSE IF c = Ord("T") THEN "transaction"
        ELSE "None"

_string_message(s, t) ==
    consume(<<Ord(t)>> \o pack_int32(Len(s) + 5) \o s \o <<0>>)

_int_message(t, intval) ==
    consume(<<Ord(t)>> \o pack_int32(8) \o pack_int32(intval))

_char_message(t, c) ==
    consume(<<Ord(t)>> \o pack_int32(5) \o <<c>>)

query(sql) == _string_message(sql, "Q")

authenticationOk == _int_message("R", 0)

readyForQuery(status) ==
    _char_message("Z", IF status = "idle" THEN Ord("I")
                       ELSE IF status = "failed" THEN Ord("E")
                       ELSE Ord("T"))

parameterStatus(name, value) ==
    consume(<<Ord("S")>> \o pack_int32(Len(name) + Len(value) + 2 + 4)
            \o name \o <<0>> \o value \o <<0>>)

startup(user) ==
    LET payload == <<0, 3, 0, 0>> \o B(<<"u", "s", "e", "r">>) \o <<0>> \o user \o <<0>>
    IN  consume(pack_int32(Len(payload) + 4) \o payload)

commandComplete(tag) == _string_message(tag, "C")

terminate == consume(<<Ord("X"), 0, 0, 0, 4>>)

\* errorResponse(*fields): fields are <<tag byte, string>> pairs.
errorResponse(fields) ==
    LET body == Flatten(AsSeq([i \in 1..Len(fields) |->
                                  <<fields[i][1]>> \o fields[i][2] \o <<0>>]))
    IN  consume(<<Ord("E")>> \o pack_int32(4 + Len(body) + 1) \o body \o <<0>>)

re_begin_test == B(<<"b", "e", "g", "i", "n", " ", "t", "e", "s", "t", " ",
    "'">>)
re_rollback_test == B(<<"r", "o", "l", "l", "b", "a", "c", "k", " ", "t",
    "e", "s", "t", " ", "'">>)
kw_begin == B(<<"b", "e", "g", "i", "n">>)
kw_commit == B(<<"c", "o", "m", "m", "i", "t">>)
kw_end_work == B(<<"e", "n", "d", " ", "w", "o", "r", "k">>)
kw_end_transaction == B(<<"e", "n", "d", " ", "t", "r", "a", "n", "s", "a",
    "c", "t", "i", "o", "n">>)
kw_rollback == B(<<"r", "o", "l", "l", "b", "a", "c", "k">>)
kw_set_transaction == B(<<"s", "e", "t", " ", "t", "r", "a", "n", "s", "a",
    "c", "t", "i", "o", "n">>)
stmt_BEGIN == B(<<"B", "E", "G", "I", "N">>)
stmt_ROLLBACK == B(<<"R", "O", "L", "L", "B", "A", "C", "K">>)
fmt_comment == B(<<";", " ", "-", "-", " ">>)
fmt_savepoint == B(<<"S", "A", "V", "E", "P", "O", "I", "N", "T", " ">>)
fmt_release == B(<<"R", "E", "L", "E", "A", "S", "E", " ", "S", "A", "V",
    "E", "P", "O", "I", "N", "T", " ">>)
fmt_rollback_to == B(<<"R", "O", "L", "L", "B", "A", "C", "K", " ", "T", "O",
    " ", "S", "A", "V", "E", "P", "O", "I", "N", "T", " ">>)
fmt_sp == B(<<"s", "p", "_">>)
tag_COMMIT == B(<<"C", "O", "M", "M", "I", "T">>)
tag_END_WORK == B(<<"E", "N", "D", " ", "W", "O", "R", "K">>)
tag_SET == B(<<"S", "E", "T">>)
err_S == B(<<"E", "R", "R", "O", "R">>)
err_C == B(<<"2", "5", "P", "0", "2">>)
err_M == B(<<"c", "u", "r", "r", "e", "n", "t", " ", "t", "r", "a", "n", "s",
    "a", "c", "t", "i", "o", "n", " ", "i", "s", " ", "a", "b", "o", "r",
    "t", "e", "d", ",", " ", "c", "o", "m", "m", "a", "n", "d", "s", " ",
    "i", "g", "n", "o", "r", "e", "d", " ", "u", "n", "t", "i", "l", " ",
    "e", "n", "d", " ", "o", "f", " ", "t", "r", "a", "n", "s", "a", "c",
    "t", "i", "o", "n", " ", "b", "l", "o", "c", "k">>)
err_F == B(<<"p", "o", "s", "t", "g", "r", "e", "s", ".", "c">>)
err_L == B(<<"9", "0", "6">>)
err_R == B(<<"e", "x", "e", "c", "_", "s", "i", "m", "p", "l", "e", "_", "q",
    "u", "e", "r", "y">>)
(***************************************************************************)
(* filters.py: Filter.  A verdict is the sequence of messages to write to  *)
(* the peer; the empty sequence is (None, None), nothing to write.         *)
(***************************************************************************)
transmit(msg) == <<msg>>

translate(messages) == messages

drop(msg) == <<>>

\* Filter.spoof: the data handed to reactor.callLater(0, ...write(data)).
spoof(messages) == serializeAll(messages)

(***************************************************************************)
(* filters.py: FrontendFilter.  A handler returns its effects: out, the    *)
(* verdict; spoofs, the data of its spoof calls; sp, the savepoint stack   *)
(* it leaves; ignore, the codes it passes to the backend's ignoreMessages; *)
(* test, the value of in_test it leaves; timed, whether it read the clock. *)
(***************************************************************************)
Effects(out, spoofs, sp, ignore, test, timed) ==
    [out |-> out, spoofs |-> spoofs, sp |-> sp, ignore |-> ignore,
     test |-> test, timed |-> timed]

spoofed_commit == <<commandComplete(tag_COMMIT), readyForQuery("transaction")>>

spoofed_end == <<commandComplete(tag_END_WORK), readyForQuery("transaction")>>

spoofed_begin == <<commandComplete(stmt_BEGIN), readyForQuery("transaction")>>

spoofed_rollback == <<commandComplete(stmt_ROLLBACK), readyForQuery("transaction")>>

psyco_spoofed_begin ==
    <<commandComplete(stmt_BEGIN), commandComplete(tag_SET),
      readyForQuery("transaction")>>

transaction_aborted ==
    <<errorResponse(<< <<Ord("S"), err_S>>, <<Ord("C"), err_C>>,
                       <<Ord("M"), err_M>>, <<Ord("F"), err_F>>,
                       <<Ord("L"), err_L>>, <<Ord("R"), err_R>> >>),
      readyForQuery("failed")>>

no_match == [matched |-> FALSE]

Matched(val) == [matched |-> TRUE, val |-> val]

\* re.compile(prefix + "([^']*)';?$").match(sql): the group, when it matches.
\* '$' matches at the end and before a final newline.
re_match(prefix, sql) ==
    IF ~StartsWith(sql, prefix) THEN [ok |-> FALSE]
    ELSE LET rest == From(sql, Len(prefix))
             n == CHOOSE k \in 0..Len(rest) :
                      /\ \A j \in 1..k : rest[j] # Ord("'")
                      /\ k < Len(rest) => rest[k + 1] = Ord("'")
             tail == From(rest, n + 1)
         IN  IF n < Len(rest) /\ tail \in {<<>>, <<59>>, <<10>>, <<59, 10>>}
             THEN [ok |-> TRUE, name |-> Upto(rest, n)]
             ELSE [ok |-> FALSE]

\* PostgresClientProtocol.authenticationComplete
authenticationComplete(auth) ==
    IF auth = <<>> THEN FALSE ELSE auth[Len(auth)].type = "Z"

\* filter_Startup that never answers from the cache.
filter_Startup_transmit(msg, sp, inTest, auth) ==
    Effects(transmit(msg), <<>>, sp, <<>>, inTest, FALSE)

filter_Startup(msg, sp, inTest, auth) ==
    IF authenticationComplete(auth)
    THEN Effects(drop(msg), <<spoof(auth)>>, sp, <<>>, inTest, FALSE)
    ELSE Effects(transmit(msg), <<>>, sp, <<>>, inTest, FALSE)

match_test_syntax(msg, sql, sp, inTest) ==
    LET b == re_match(re_begin_test, sql)
        r == re_match(re_rollback_test, sql)
    IN  IF b.ok
        THEN Matched(Effects(translate(<<query(stmt_BEGIN \o fmt_comment \o b.name)>>),
                             <<>>, sp, <<>>, TRUE, FALSE))
        ELSE IF r.ok
        THEN Matched(Effects(translate(<<query(stmt_ROLLBACK \o fmt_comment \o r.name)>>),
                             <<>>, sp, <<>>, FALSE, FALSE))
        ELSE no_match

\* The codes appended last to first.
_ignoreBackendMessages_reversed(messageTypes) ==
    AsSeq([k \in 1..Len(messageTypes) |-> messageTypes[Len(messageTypes) + 1 - k]])

\* FrontendFilter._ignoreBackendMessages: the codes appended to the backend
\* filter's dropMessages.
_ignoreBackendMessages(messageTypes) == messageTypes

\* translateSavepoint that names the top of the stack and leaves it there.
translateSavepoint_keep(msg, sqlFormat, spoofs, sp, inTest) ==
    IF inTest /\ sp # <<>>
    THEN Matched(Effects(translate(<<query(sqlFormat \o sp[Len(sp)])>>), spoofs, sp,
                         _ignoreBackendMessages(<<"C", "Z">>), inTest, FALSE))
    ELSE Matched(Effects(drop(msg), spoofs, sp, <<>>, inTest, FALSE))

\* translateSavepoint that takes the oldest name, savepoints.pop(0).
translateSavepoint_fifo(msg, sqlFormat, spoofs, sp, inTest) ==
    IF inTest /\ sp # <<>>
    THEN Matched(Effects(translate(<<query(sqlFormat \o sp[1])>>), spoofs, Tail(sp),
                         _ignoreBackendMessages(<<"C", "Z">>), inTest, FALSE))
    ELSE Matched(Effects(drop(msg), spoofs, sp, <<>>, inTest, FALSE))

translateSavepoint(msg, sqlFormat, spoofs, sp, inTest) ==
    IF inTest /\ sp # <<>>
    THEN Matched(Effects(translate(<<query(sqlFormat \o sp[Len(sp)])>>), spoofs,
                         SubSeq(sp, 1, Len(sp) - 1),
                         _ignoreBackendMessages(<<"C", "Z">>), inTest, FALSE))
    ELSE Matched(Effects(drop(msg), spoofs, sp, <<>>, inTest, FALSE))

\* releaseSavepoint without the look at the transaction status.
releaseSavepoint_unchecked(msg, spoofData, sp, inTest, status) ==
    translateSavepoint(msg, fmt_release, <<spoof(spoofData)>>, sp, inTest)

releaseSavepoint(msg, spoofData, sp, inTest, status) ==
    IF status = "failed"
    THEN Matched(Effects(drop(msg), <<spoof(transaction_aborted)>>, sp, <<>>,
                         inTest, FALSE))
    ELSE translateSavepoint(msg, fmt_release, <<spoof(spoofData)>>, sp, inTest)

match_commit(msg, sql, sp, inTest, status) ==
    IF StartsWith(sql, kw_commit)
    THEN releaseSavepoint(msg, spoofed_commit, sp, inTest, status)
    ELSE no_match

match_end_work(msg, sql, sp, inTest, status) ==
    IF StartsWith(sql, kw_end_work) \/ StartsWith(sql, kw_end_transaction)
    THEN releaseSavepoint(msg, spoofed_end, sp, inTest, status)
    ELSE no_match

\* match_rollback that rolls back to a savepoint outside a test as well.
match_rollback_anywhere(msg, sql, sp, inTest) ==
    IF ~StartsWith(sql, kw_rollback) THEN no_match
    ELSE IF sp # <<>>
    THEN Matched(Effects(translate(<<query(fmt_rollback_to \o sp[Len(sp)])>>),
                         <<spoof(spoofed_rollback)>>, SubSeq(sp, 1, Len(sp) - 1),
                         _ignoreBackendMessages(<<"C", "Z">>), inTest, FALSE))
    ELSE Matched(Effects(drop(msg), <<spoof(spoofed_rollback)>>, sp, <<>>, inTest,
                         FALSE))

match_rollback(msg, sql, sp, inTest) ==
    IF StartsWith(sql, kw_rollback)
    THEN translateSavepoint(msg, fmt_rollback_to, <<spoof(spoofed_rollback)>>,
                            sp, inTest)
    ELSE no_match

\* str(time.time()) of a clock reading t, counted in tenths of a second:
\* the seconds, a dot, the fraction.
str_time(t) == Digits(t \div 10) \o <<Ord(".")>> \o Digits(t % 10)

\* FrontendFilter.savepoint: the new name, pushed and sent as a query.
\* The name with the dot of the clock reading left in.
savepoint_name_dotted(t) == fmt_sp \o str_time(t)

savepoint_name(t) == fmt_sp \o Replace(str_time(t), Ord("."), Ord("_"))

savepoint(sp, t) ==
    [sp |-> Append(sp, savepoint_name(t)),
     msg |-> query(fmt_savepoint \o savepoint_name(t))]

\* match_begin that has the backend ignore the ReadyForQuery alone.
match_begin_Z(msg, sql, sp, inTest, t) ==
    IF StartsWith(sql, kw_begin)
    THEN LET spoofs == IF Contains(sql, kw_set_transaction)
                       THEN <<spoof(psyco_spoofed_begin)>>
                       ELSE <<spoof(spoofed_begin)>>
             s == savepoint(sp, t)
         IN  IF inTest
             THEN Matched(Effects(translate(<<s.msg>>), spoofs, s.sp,
                                  _ignoreBackendMessages(<<"Z">>), inTest, TRUE))
             ELSE Matched(Effects(drop(msg), spoofs, sp, <<>>, inTest, FALSE))
    ELSE no_match

match_begin(msg, sql, sp, inTest, t) ==
    IF StartsWith(sql, kw_begin)
    THEN LET spoofs == IF Contains(sql, kw_set_transaction)
                       THEN <<spoof(psyco_spoofed_begin)>>
                       ELSE <<spoof(spoofed_begin)>>
             s == savepoint(sp, t)
         IN  IF inTest
             THEN Matched(Effects(translate(<<s.msg>>), spoofs, s.sp,
                                  _ignoreBackendMessages(<<"C", "Z">>), inTest, TRUE))
             ELSE Matched(Effects(drop(msg), spoofs, sp, <<>>, inTest, FALSE))
    ELSE no_match

\* filter_Q that asks match_begin and match_rollback before match_test_syntax.
filter_Q_test_syntax_last(msg, sp, inTest, status, t) ==
    LET sql == Upto(Lower(msg.data), Len(msg.data) - 1)
        m1 == match_test_syntax(msg, sql, sp, inTest)
        m2 == match_begin(msg, sql, sp, inTest, t)
        m3 == match_commit(msg, sql, sp, inTest, status)
        m4 == match_end_work(msg, sql, sp, inTest, status)
        m5 == match_rollback(msg, sql, sp, inTest)
    IN  IF m2.matched THEN m2.val
        ELSE IF m3.matched THEN m3.val
        ELSE IF m4.matched THEN m4.val
        ELSE IF m5.matched THEN m5.val
        ELSE IF m1.matched THEN m1.val
        ELSE Effects(transmit(msg), <<>>, sp, <<>>, inTest, FALSE)

filter_Q(msg, sp, inTest, status, t) ==
    LET sql == Upto(Lower(msg.data), Len(msg.data) - 1)
        m1 == match_test_syntax(msg, sql, sp, inTest)
        m2 == match_begin(msg, sql, sp, inTest, t)
        m3 == match_commit(msg, sql, sp, inTest, status)
        m4 == match_end_work(msg, sql, sp, inTest, status)
        m5 == match_rollback(msg, sql, sp, inTest)
    IN  IF m1.matched THEN m1.val
        ELSE IF m2.matched THEN m2.val
        ELSE IF m3.matched THEN m3.val
        ELSE IF m4.matched THEN m4.val
        ELSE IF m5.matched THEN m5.val
        ELSE Effects(transmit(msg), <<>>, sp, <<>>, inTest, FALSE)

\* filter_X that lets the Terminate through.
filter_X_transmit(msg, sp, inTest) ==
    Effects(transmit(msg), <<>>, sp, <<>>, inTest, FALSE)

filter_X(msg, sp, inTest) == Effects(drop(msg), <<>>, sp, <<>>, inTest, FALSE)

\* Filter.filter of a FrontendFilter.  Its own dropMessages stays '': only
\* the backend protocol's ignoreMessages is ever called.
\* Filter.filter that drops the messages it has no handler for.
FrontendFilter_filter_strict(msg, sp, inTest, status, auth, t) ==
    IF msg.type = "Startup" THEN filter_Startup(msg, sp, inTest, auth)
    ELSE IF msg.type = "Q" THEN filter_Q(msg, sp, inTest, status, t)
    ELSE IF msg.type = "X" THEN filter_X(msg, sp, inTest)
    ELSE Effects(drop(msg), <<>>, sp, <<>>, inTest, FALSE)

FrontendFilter_filter(msg, sp, inTest, status, auth, t) ==
    IF msg.type = "Startup" THEN filter_Startup(msg, sp, inTest, auth)
    ELSE IF msg.type = "Q" THEN filter_Q(msg, sp, inTest, status, t)
    ELSE IF msg.type = "X" THEN filter_X(msg, sp, inTest)
    ELSE Effects(transmit(msg), <<>>, sp, <<>>, inTest, FALSE)

(***************************************************************************)
(* proxy.py: PostgresClientProtocol, the shared backend session.           *)
(***************************************************************************)
currentClient(stack) == IF stack = <<>> THEN 0 ELSE stack[Len(stack)]

\* list.remove(client)
remove(stack, client) ==
    LET k == CHOOSE i \in 1..Len(stack) :
                 stack[i] = client /\ \A j \in 1..(i - 1) : stack[j] # client
    IN  SubSeq(stack, 1, k - 1) \o SubSeq(stack, k + 1, Len(stack))

\* attachClient without its assertion.
attachClient_unchecked(stack, client, parsing) ==
    [stack |-> Append(stack, client), err |-> ""]

\* attachClient: the AssertionError while a message is being parsed, the
\* append otherwise.
attachClient(stack, client, parsing) ==
    IF parsing THEN [stack |-> stack, err |-> "AssertionError"]
    ELSE [stack |-> Append(stack, client), err |-> ""]

detachClient(stack, client) == remove(stack, client)

\* activateClient that exchanges the client with the one on top.
activateClient_swap(stack, client) ==
    LET k == CHOOSE i \in 1..Len(stack) : stack[i] = client
    IN  [stack EXCEPT ![k] = stack[Len(stack)], ![Len(stack)] = client]

activateClient(stack, client) ==
    IF client = currentClient(stack) THEN stack
    ELSE Append(remove(stack, client), client)

overwriteSetting(auth, msg) ==
    AsSeq([i \in 1..Len(auth) |->
              IF getattr_name(auth[i]) = name_of(msg) THEN msg ELSE auth[i]])

\* saveAuthMessage that lets a late R or K pass without saving it.
saveAuthMessage_lenient(auth, msg) ==
    IF authenticationComplete(auth)
    THEN IF msg.type = "S"
         THEN [auth |-> overwriteSetting(auth, msg), err |-> ""]
         ELSE [auth |-> auth, err |-> ""]
    ELSE [auth |-> Append(auth, msg), err |-> ""]

\* saveAuthMessage: the authenticationResponse it leaves, and the error
\* it raises.
saveAuthMessage(auth, msg) ==
    IF authenticationComplete(auth)
    THEN IF msg.type = "S"
         THEN [auth |-> overwriteSetting(auth, msg), err |-> ""]
         ELSE [auth |-> auth, err |-> "AssertionError"]
    ELSE [auth |-> Append(auth, msg), err |-> ""]

(***************************************************************************)
(* filters.py: BackendFilter.  A handler returns out, the verdict; drops,  *)
(* auth and status, the dropMessages, authenticationResponse and           *)
(* transactionStatus it leaves; err, the exception it raises.              *)
(***************************************************************************)
BackendEffects(out, drops, auth, status, err) ==
    [out |-> out, drops |-> drops, auth |-> auth, status |-> status, err |-> err]

saveAuth(msg, drops, auth, status) ==
    LET s == saveAuthMessage(auth, msg)
    IN  IF s.err # "" THEN BackendEffects(<<>>, drops, s.auth, status, s.err)
        ELSE BackendEffects(transmit(msg), drops, s.auth, status, "")

filter_Z(msg, drops, auth, status) ==
    BackendEffects(transmit(msg), drops,
                   IF ~authenticationComplete(auth)
                   THEN saveAuthMessage(auth, msg).auth ELSE auth,
                   transaction_status(msg), "")

\* Filter.filter that drops a message whose type is anywhere in the
\* drop-list, and with it the first such entry.
BackendFilter_filter_anywhere(msg, drops, auth, status) ==
    IF \E k \in 1..Len(drops) : drops[k] = msg.type
    THEN LET k == CHOOSE j \in 1..Len(drops) :
                      drops[j] = msg.type /\ \A h \in 1..(j - 1) : drops[h] # msg.type
         IN  BackendEffects(drop(msg), SubSeq(drops, 1, k - 1) \o
                                       SubSeq(drops, k + 1, Len(drops)),
                            auth, status, "")
    ELSE IF msg.type \in {"R", "S", "K"} THEN saveAuth(msg, drops, auth, status)
    ELSE IF msg.type = "Z" THEN filter_Z(msg, drops, auth, status)
    ELSE BackendEffects(transmit(msg), drops, auth, status, "")

\* Filter.filter of the BackendFilter: the drop-list, then the dispatch on
\* the type code.
BackendFilter_filter(msg, drops, auth, status) ==
    IF drops # <<>> /\ msg.type = Head(drops)
    THEN BackendEffects(drop(msg), Tail(drops), auth, status, "")
    ELSE IF msg.type \in {"R", "S", "K"} THEN saveAuth(msg, drops, auth, status)
    ELSE IF msg.type = "Z" THEN filter_Z(msg, drops, auth, status)
    ELSE BackendEffects(transmit(msg), drops, auth, status, "")

(***************************************************************************)
(* protocol.py: FilteringProtocol.writePeer.  With a peer the data are     *)
(* written to its transport; without one the log call joins message        *)
(* objects as if they were strings and raises TypeError.                   *)
(***************************************************************************)
NoWrite == [client |-> 0, data |-> <<>>]

writePeer(peer, messages) ==
    IF peer # 0
    THEN [write |-> [client |-> peer, data |-> serializeAll(messages)], err |-> ""]
    ELSE [write |-> NoWrite, err |-> "TypeError"]

(***************************************************************************)
(* The inputs of the model: the messages clients and the backend send.     *)
(***************************************************************************)
q_begin_test == B(<<"B", "E", "G", "I", "N", " ", "T", "E", "S", "T", " ",
    "'", "T", "'", ";">>)
q_rollback_test == B(<<"R", "O", "L", "L", "B", "A", "C", "K", " ", "T", "E",
    "S", "T", " ", "'", "t", "'">>)
q_begin == B(<<"B", "E", "G", "I", "N", ";">>)
q_begin_psyco == B(<<"B", "E", "G", "I", "N", ";", " ", "S", "E", "T", " ",
    "T", "R", "A", "N", "S", "A", "C", "T", "I", "O", "N", " ", "I", "S",
    "O", "L", "A", "T", "I", "O", "N", " ", "L", "E", "V", "E", "L", " ",
    "R", "E", "A", "D", " ", "C", "O", "M", "M", "I", "T", "T", "E", "D",
    ";">>)
q_commit == B(<<"C", "O", "M", "M", "I", "T">>)
q_end_work == B(<<"e", "n", "d", " ", "w", "o", "r", "k", ";">>)
q_end_transaction == B(<<"E", "N", "D", " ", "T", "R", "A", "N", "S", "A",
    "C", "T", "I", "O", "N">>)
q_rollback == B(<<"r", "o", "l", "l", "b", "a", "c", "k">>)
q_select == B(<<"s", "e", "l", "e", "c", "t", " ", "1", ";">>)
tag_SELECT == B(<<"S", "E", "L", "E", "C", "T">>)
user_pg == B(<<"p", "g">>)

\* A Sync and a cancel request, with the code FrontendMessage.Cancel.
sync == consume(<<Ord("S"), 0, 0, 0, 4>>)

cancelRequest ==
    consume(<<0, 0, 0, 16, 128, 135, 113, 2, 0, 0, 0, 1, 0, 0, 0, 2>>)

\* The messages a client sends, by input number.
FrontendMsgs ==
    <<startup(user_pg), terminate, query(q_select), query(q_begin_test),
      query(q_rollback_test), query(q_begin), query(q_begin_psyco),
      query(q_commit), query(q_end_work), query(q_end_transaction),
      query(q_rollback), sync, cancelRequest>>

\* The input numbers: all of them, those that concern transactions, and
\* those of a session with its handshake (Startup, SELECT, BEGIN TEST,
\* BEGIN, COMMIT, Sync, Cancel).
FrontendInputs == 1..Len(FrontendMsgs)

FrontendInputsTx == 1..(Len(FrontendMsgs) - 2)

FrontendInputsAuth == {1, 3, 4, 6, 8, 12, 13}

\* BackendKeyData and a DataRow.
backendKeyData == consume(<<Ord("K"), 0, 0, 0, 12, 0, 0, 0, 1, 0, 0, 0, 2>>)

dataRow == consume(<<Ord("D"), 0, 0, 0, 11, 0, 1, 0, 0, 0, 1, Ord("1")>>)

\* The messages the backend sends, by input number.
BackendMsgs ==
    <<readyForQuery("idle"), readyForQuery("failed"), commandComplete(tag_SELECT),
      readyForQuery("transaction"), authenticationOk, backendKeyData, dataRow,
      parameterStatus(B(<<"a">>), B(<<"1">>)), parameterStatus(B(<<"b">>), B(<<"1">>)),
      parameterStatus(B(<<"a">>), B(<<"2">>)), parameterStatus(<<>>, B(<<"2">>)),
      errorResponse(<< <<Ord("S"), err_S>> >>)>>

\* The input numbers: those the server sends in reply to queries, and those
\* of a session with its handshake.
BackendInputsTx == 1..3

BackendInputsAuth == {1, 3, 5, 6, 8, 9, 10, 11, 12}

Clients == 1..MaxClients

(***************************************************************************)
(* State.                                                                  *)
(***************************************************************************)
VARIABLES
    conn,                   \* per client connection: "new", "open", "closed",
                            \* "paused" (waits for the dial), "unattached"
    clientStack,            \* PostgresClientProtocol.clientStack
    authenticationResponse, \* PostgresClientProtocol.authenticationResponse
    transactionStatus,      \* PostgresClientProtocol.transactionStatus
    in_test,                \* PostgresClientProtocol.in_test
    dead,                   \* PostgresClientProtocol.dead
    dropMessages,           \* the BackendFilter's dropMessages
    savepoints,             \* per client: its FrontendFilter's savepoints
    delayed,                \* the reactor's pending callLater(0) writes
    clock,                  \* the latest reading of time.time()
    begun,                  \* per client: in-test BEGINs not yet matched
    ev,                     \* the event handled last
    toBackend,              \* data it wrote to the backend transport
    toClient,               \* data it wrote to a client transport
    unread,                 \* a framer: the bytes its connection has yet to read
    fed,                    \* the bytes it was given so far, all reads together
    _message,               \* MessageProtocol._message: <<>> for None, or <<m>>
    delivered,              \* the messages handed to messageReceived
    framing,                \* "ok", the exception raised, or "hang"
    phase,                  \* the reactor: "io" in doIteration, "timers" in runUntilCurrent
    nseq,                   \* the number of frontend messages handled
    sent,                   \* the messages written to the backend and not yet answered
    spoofSeq,               \* for each entry of delayed, the number of its message
    creatingPostgresProtocol,   \* the factory's dial: "none", "dialing", "failed"
    callbacks,              \* the clients whose attach and resume wait for the dial
    generation              \* the number of backend sessions dialed so far

\* The variables of the session and those of the framer.
session ==
    <<conn, clientStack, authenticationResponse, transactionStatus, in_test,
      dead, dropMessages, savepoints, delayed, clock, begun, ev, toBackend,
      toClient>>

framer == <<unread, fed, _message, delivered, framing>>

reactor == <<phase, nseq, sent, spoofSeq>>

factory == <<creatingPostgresProtocol, callbacks, generation>>

vars == <<session, framer, reactor, factory>>

Event(kind, client, msg) == [kind |-> kind, client |-> client, msg |-> msg]

\* PostgresClientProtocol.__init__ and the class attributes; no client yet.
InitSession ==
    /\ conn = [c \in Clients |-> "new"]
    /\ clientStack = <<>>
    /\ authenticationResponse = <<>>
    /\ transactionStatus = "None"
    /\ in_test = FALSE
    /\ dead = FALSE
    /\ dropMessages = <<>>
    /\ savepoints = [c \in Clients |-> <<>>]
    /\ delayed = <<>>
    /\ clock = 0
    /\ begun = [c \in Clients |-> 0]
    /\ ev = Event("init", 0, 0)
    /\ toBackend = <<>>
    /\ toClient = NoWrite

\* A framer that is given nothing to read: the session specifications
\* deliver whole messages, one per read.
NoStream ==
    /\ unread = <<>>
    /\ fed = <<>>
    /\ _message = <<>>
    /\ delivered = <<>>
    /\ framing = "ok"

\* The reactor is about to poll; nothing was written or scheduled.
InitReactor ==
    /\ phase = "io"
    /\ nseq = 0
    /\ sent = <<>>
    /\ spoofSeq = <<>>

\* The factory holds the session it dialed for its first client.
LiveSession ==
    /\ creatingPostgresProtocol = "none"
    /\ callbacks = <<>>
    /\ generation = 1

Init == InitSession /\ NoStream /\ InitReactor /\ LiveSession

(***************************************************************************)
(* What a query asks for, read off its text as the filter reads it.        *)
(***************************************************************************)
sql_of(msg) == Upto(Lower(msg.data), Len(msg.data) - 1)

\* The kind of a message: its type code or, for a query, the matcher of
\* filter_Q its text is for, in the order filter_Q asks them.
QueryKind(msg) ==
    IF msg.type # "Q" THEN msg.type
    ELSE LET sql == sql_of(msg)
         IN  IF re_match(re_begin_test, sql).ok THEN "begin test"
             ELSE IF re_match(re_rollback_test, sql).ok THEN "rollback test"
             ELSE IF StartsWith(sql, kw_begin) THEN "begin"
             ELSE IF StartsWith(sql, kw_commit) THEN "commit"
             ELSE IF StartsWith(sql, kw_end_work) \/ StartsWith(sql, kw_end_transaction)
             THEN "end"
             ELSE IF StartsWith(sql, kw_rollback) THEN "rollback"
             ELSE "other"

\* The kind of each input message, tabulated.
kind_of == AsSeq([i \in FrontendInputs |-> QueryKind(FrontendMsgs[i])])

\* The in-test BEGINs of a client that are still unmatched after msg: a
\* BEGIN in a test opens one, a ROLLBACK in a test or a COMMIT / END that
\* the transaction status lets through closes the innermost.
Outstanding(n, i, inTest, status) ==
    IF ~inTest THEN n
    ELSE IF kind_of[i] = "begin" THEN n + 1
    ELSE IF n > 0 /\ (\/ kind_of[i] = "rollback"
                      \/ kind_of[i] \in {"commit", "end"} /\ status # "failed")
    THEN n - 1
    ELSE n

\* The savepoint names, stacks and transaction statuses of the model.
Names == {savepoint_name(t) : t \in 0..MaxClock}

RECURSIVE SetToSeq(_)
SetToSeq(S) ==
    IF S = {} THEN <<>>
    ELSE LET x == CHOOSE y \in S : TRUE IN <<x>> \o SetToSeq(S \ {x})

Stacks == SetToSeq(UNION {[1..n -> Names] : n \in 0..MaxSavepoints})

Statuses == <<"None", "idle", "failed", "transaction">>

IndexOf(seq, x) == CHOOSE k \in 1..Len(seq) : seq[k] = x

\* FrontendFilter.filter of every input but Startup, in every state of the
\* filter, evaluated once: by input number, in_test, transaction status,
\* clock reading and savepoint stack.
filter_memo ==
    AsSeq([i \in FrontendInputs |->
      AsSeq([b \in 1..2 |->
        AsSeq([s \in 1..Len(Statuses) |->
          AsSeq([t \in 1..(MaxClock + 1) |->
            AsSeq([k \in 1..Len(Stacks) |->
              FrontendFilter_filter(FrontendMsgs[i], Stacks[k], b = 1, Statuses[s],
                                    <<>>, t - 1)])])])])])

\* FrontendFilter.filter on input number i.
FrontendFilter_apply(i, sp, inTest, status, auth, t) ==
    IF FrontendMsgs[i].type = "Startup"
    THEN FrontendFilter_filter(FrontendMsgs[i], sp, inTest, status, auth, t)
    ELSE filter_memo[i][IF inTest THEN 1 ELSE 2][IndexOf(Statuses, status)][t + 1]
                    [IndexOf(Stacks, sp)]

(***************************************************************************)
(* Actions: one per event the reactor dispatches.                          *)
(***************************************************************************)
\* MessageProtocol.parsingMessage of the backend session.
parsingMessage == _message # <<>>

\* PGProxyProtocol.connectionMade with a live backend session: the factory
\* attaches the client at once.  The AssertionError of attachClient leaves
\* the connection open without a session.
connectionMade(c) ==
    LET r == attachClient(clientStack, c, parsingMessage)
    IN  /\ conn[c] = "new"
        /\ \A d \in 1..(c - 1) : conn[d] # "new"
        /\ ~dead
        /\ conn' = [conn EXCEPT ![c] = IF r.err = "" THEN "open" ELSE "unattached"]
        /\ clientStack' = r.stack
        /\ ev' = Event(IF r.err = "" THEN "connect" ELSE r.err, c, 0)
        /\ toBackend' = <<>>
        /\ toClient' = NoWrite
        /\ UNCHANGED <<authenticationResponse, transactionStatus, in_test, dead,
                       dropMessages, savepoints, delayed, clock, begun>>

\* A connectionLost whose detachClient keeps the message being parsed.
connectionLost_keep(c) ==
    /\ conn[c] \in {"open", "unattached"}
    /\ ~dead
    /\ conn' = [conn EXCEPT ![c] = "closed"]
    /\ clientStack' = IF conn[c] = "open" THEN detachClient(clientStack, c)
                      ELSE clientStack
    /\ UNCHANGED <<unread, fed, _message, delivered, framing>>
    /\ savepoints' = [savepoints EXCEPT ![c] = <<>>]
    /\ begun' = [begun EXCEPT ![c] = 0]
    /\ ev' = Event("disconnect", c, 0)
    /\ toBackend' = <<>>
    /\ toClient' = NoWrite
    /\ UNCHANGED <<authenticationResponse, transactionStatus, in_test, dead,
                   dropMessages, delayed, clock>>

\* PGProxyProtocol.connectionLost: detachClient when the client has a
\* session, which discards the message the session is parsing.
connectionLost(c) ==
    /\ conn[c] \in {"open", "unattached"}
    /\ ~dead
    /\ conn' = [conn EXCEPT ![c] = "closed"]
    /\ clientStack' = IF conn[c] = "open" THEN detachClient(clientStack, c)
                      ELSE clientStack
    /\ _message' = IF conn[c] = "open" THEN <<>> ELSE _message
    /\ UNCHANGED <<unread, fed, delivered, framing>>
    /\ savepoints' = [savepoints EXCEPT ![c] = <<>>]
    /\ begun' = [begun EXCEPT ![c] = 0]
    /\ ev' = Event("disconnect", c, 0)
    /\ toBackend' = <<>>
    /\ toClient' = NoWrite
    /\ UNCHANGED <<authenticationResponse, transactionStatus, in_test, dead,
                   dropMessages, delayed, clock>>

\* PGProxyProtocol.messageReceived: activate, filter, write to the backend.
\* t is the reading of the clock, should the filter take one.
FrontendMessageReceived(c, i, t) ==
    LET r == FrontendFilter_apply(i, savepoints[c], in_test, transactionStatus,
                                  authenticationResponse, t)
    IN  /\ conn[c] = "open"
        /\ ~dead
        /\ r.timed \/ t = clock
        /\ Len(r.sp) <= MaxSavepoints
        /\ Len(dropMessages) + Len(r.ignore) <= MaxDrop
        /\ Len(delayed) + Len(r.spoofs) <= MaxSpoof
        /\ clientStack' = activateClient(clientStack, c)
        /\ savepoints' = [savepoints EXCEPT ![c] = r.sp]
        /\ in_test' = r.test
        /\ dropMessages' = dropMessages \o r.ignore
        /\ delayed' = delayed \o AsSeq([k \in 1..Len(r.spoofs) |->
                                           [client |-> c, data |-> r.spoofs[k]]])
        /\ clock' = IF r.timed THEN t ELSE clock
        /\ begun' = [begun EXCEPT ![c] = Outstanding(@, i, in_test, transactionStatus)]
        /\ toBackend' = serializeAll(r.out)
        /\ toClient' = NoWrite
        /\ ev' = Event("frontend", c, i)
        /\ UNCHANGED <<conn, authenticationResponse, transactionStatus, dead>>

\* PostgresClientProtocol.messageReceived: filter, write to the current
\* client.  An exception reaches the reactor, which drops the connection.
BackendMessageReceived(i) ==
    LET msg == BackendMsgs[i]
        r == BackendFilter_filter(msg, dropMessages, authenticationResponse,
                                  transactionStatus)
        w == IF r.err # "" \/ r.out = <<>> THEN [write |-> NoWrite, err |-> r.err]
             ELSE writePeer(currentClient(clientStack), r.out)
    IN  /\ ~dead
        /\ Len(r.auth) > Len(authenticationResponse) =>
               Len(r.auth) + (IF msg.type = "Z" THEN 0 ELSE 1) <= MaxAuth
        /\ dropMessages' = r.drops
        /\ authenticationResponse' = r.auth
        /\ transactionStatus' = r.status
        /\ dead' = (w.err # "")
        /\ toClient' = w.write
        /\ toBackend' = <<>>
        /\ ev' = Event("backend", 0, i)
        /\ UNCHANGED <<conn, clientStack, in_test, savepoints, delayed, clock, begun>>

\* A delayed call that writes to the client that is current when it runs.
runDelayedCall_current ==
    /\ delayed # <<>>
    /\ ~dead
    /\ toClient' = [client |-> currentClient(clientStack), data |-> Head(delayed).data]
    /\ delayed' = Tail(delayed)
    /\ toBackend' = <<>>
    /\ ev' = Event("spoof", Head(delayed).client, 0)
    /\ UNCHANGED <<conn, clientStack, authenticationResponse, transactionStatus,
                   in_test, dead, dropMessages, savepoints, clock, begun>>

\* The reactor runs the oldest callLater(0) of a spoof: the write to the
\* transport of the client whose filter spoofed.
runDelayedCall ==
    /\ delayed # <<>>
    /\ ~dead
    /\ toClient' = Head(delayed)
    /\ delayed' = Tail(delayed)
    /\ toBackend' = <<>>
    /\ ev' = Event("spoof", Head(delayed).client, 0)
    /\ UNCHANGED <<conn, clientStack, authenticationResponse, transactionStatus,
                   in_test, dead, dropMessages, savepoints, clock, begun>>

\* PGProxyServerFactory.postgresProtocol is set: gotProto stores the session
\* when the dial of the first client has succeeded, postgresClientLost
\* clears it when the session dies.
postgresProtocol == ~dead /\ \E c \in Clients : conn[c] # "new"

\* PGProxyServerFactory.stopFactory: terminate() on the session it holds.
\* The connections that are open stay as they are.
stopFactory ==
    /\ toBackend' = IF postgresProtocol THEN serialize(terminate) ELSE <<>>
    /\ toClient' = NoWrite
    /\ ev' = Event("stop", 0, 0)
    /\ UNCHANGED <<conn, clientStack, authenticationResponse, transactionStatus,
                   in_test, dead, dropMessages, savepoints, delayed, clock, begun>>

\* The reactor runs the calls that are due before it polls its sockets
\* again; the model delivers every message in a read of its own.
Polling == delayed = <<>>

Next ==
    \/ \E c \in Clients : Polling /\ connectionMade(c) /\ UNCHANGED <<framer, reactor, factory>>
    \/ \E c \in Clients : Polling /\ connectionLost(c) /\ UNCHANGED <<reactor, factory>>
    \/ \E c \in Clients, i \in FrontendInputsTx, t \in clock..MaxClock :
           Polling /\ FrontendMessageReceived(c, i, t) /\ UNCHANGED <<framer, reactor, factory>>
    \/ \E i \in BackendInputsTx :
           Polling /\ BackendMessageReceived(i) /\ UNCHANGED <<framer, reactor, factory>>
    \/ runDelayedCall /\ UNCHANGED <<framer, reactor, factory>>
    \/ Polling /\ stopFactory /\ UNCHANGED <<framer, reactor, factory>>

Spec == Init /\ [][Next]_vars

\* The session with its handshake: every kind of backend message, the
\* queries that fill the drop-list.  The server opens with an authentication
\* request.
ServerSends(i) == authenticationResponse = <<>> => BackendMsgs[i].type = "R"

NextAuth ==
    \/ \E c \in Clients : Polling /\ connectionMade(c) /\ UNCHANGED <<framer, reactor, factory>>
    \/ \E c \in Clients : Polling /\ connectionLost(c) /\ UNCHANGED <<reactor, factory>>
    \/ \E c \in Clients, i \in FrontendInputsAuth :
           Polling /\ FrontendMessageReceived(c, i, clock) /\ UNCHANGED <<framer, reactor, factory>>
    \/ \E i \in BackendInputsAuth :
           Polling /\ ServerSends(i) /\ BackendMessageReceived(i) /\ UNCHANGED <<framer, reactor, factory>>
    \/ runDelayedCall /\ UNCHANGED <<framer, reactor, factory>>

SpecAuth == Init /\ [][NextAuth]_vars

(***************************************************************************)
(* Properties.  A step property speaks of the state before the step        *)
(* (unprimed) and of what the step left (primed); ev' names the event.     *)
(***************************************************************************)
\* The deferred write a handler of client c registers when it spoofs.
Spoofed(c, messages) == <<[client |-> c, data |-> serializeAll(messages)]>>

\* The savepoint stack without its newest name.
Popped(sp) == SubSeq(sp, 1, Len(sp) - 1)

\* A COMMIT / END / ROLLBACK of kind k that the transaction status lets
\* through to the savepoints.
Closes(k, status) ==
    k = "rollback" \/ (k \in {"commit", "end"} /\ status # "failed")

\* The stack of a client is empty exactly when it has no BEGIN outstanding.
StackMatchesOutstanding ==
    \A c \in Clients : (savepoints[c] = <<>>) <=> (begun[c] = 0)

C1_Step ==
    ev'.kind = "frontend" /\ in_test =>
        LET c == ev'.client
            k == kind_of[ev'.msg]
            sp == savepoints[c]
        IN  /\ k = "begin" =>
                /\ Len(savepoints'[c]) = Len(sp) + 1
                /\ Popped(savepoints'[c]) = sp
            /\ begun[c] > 0 /\ Closes(k, transactionStatus) =>
                /\ sp # <<>>
                /\ savepoints'[c] = Popped(sp)
            /\ k \in {"commit", "end"} /\ transactionStatus = "failed" =>
                savepoints'[c] = sp

\* C1 (amended): in a test every BEGIN pushes exactly one savepoint name on
\* the issuing client's stack; every ROLLBACK, and every COMMIT / END WORK /
\* END TRANSACTION received while the transaction status is not failed, that
\* matches an outstanding BEGIN pops exactly one name; a COMMIT / END
\* received while the status is failed pops nothing and leaves its BEGIN
\* outstanding; and after every step a client's stack is empty if and only
\* if it has no outstanding BEGIN.
C1_SavepointsMatchBegins == [][C1_Step /\ StackMatchesOutstanding']_vars

\* C1 reached: in a test, with a healthy transaction, a COMMIT has popped
\* the inner of two savepoints and one BEGIN is still outstanding.
C1_Witness ==
    /\ ev.kind = "frontend"
    /\ kind_of[ev.msg] = "commit"
    /\ in_test
    /\ transactionStatus # "failed"
    /\ toBackend # <<>>
    /\ begun[ev.client] = 1
    /\ Len(savepoints[ev.client]) = 1

C1_StepAsStated ==
    ev'.kind = "frontend" /\ in_test =>
        LET c == ev'.client
            k == kind_of[ev'.msg]
            sp == savepoints[c]
        IN  /\ k = "begin" =>
                /\ Len(savepoints'[c]) = Len(sp) + 1
                /\ Popped(savepoints'[c]) = sp
            /\ begun[c] > 0 /\ k \in {"commit", "end", "rollback"} =>
                /\ sp # <<>>
                /\ savepoints'[c] = Popped(sp)

\* C1 as stated: in a test every BEGIN pushes exactly one name, every
\* matching COMMIT / END / ROLLBACK pops exactly one name, and the stack is
\* empty if and only if no BEGIN is outstanding.
C1_AsStated == [][C1_StepAsStated /\ StackMatchesOutstanding']_vars

\* The step rewrites a BEGIN, COMMIT, END or ROLLBACK: what it hands to the
\* backend is neither nothing nor the query itself.
Translates ==
    /\ ev'.kind = "frontend"
    /\ kind_of[ev'.msg] \in {"begin", "commit", "end", "rollback"}
    /\ toBackend' # <<>>
    /\ toBackend' # serialize(FrontendMsgs[ev'.msg])

C3_Step ==
    ev'.kind = "frontend" =>
        IF Translates THEN dropMessages' = dropMessages \o <<"C", "Z">>
        ELSE dropMessages' = dropMessages

\* C3: every translation of an in-test BEGIN, COMMIT / END or ROLLBACK
\* appends exactly the two codes C, Z to the backend drop-list, and no
\* other frontend message (dropped, transmitted, test syntax, Startup,
\* Terminate) changes the drop-list.
C3_IgnorePairing == [][C3_Step]_vars

\* C3 reached: a COMMIT was translated while a Z was still to be ignored,
\* and the drop-list is Z, C, Z.
C3_Witness ==
    /\ ev.kind = "frontend"
    /\ kind_of[ev.msg] = "commit"
    /\ toBackend # <<>>
    /\ dropMessages = <<"Z", "C", "Z">>

\* sp_<digits>_<digits>
IsDigits(s) == s # <<>> /\ \A k \in 1..Len(s) : s[k] >= 48 /\ s[k] <= 57

IsSavepointName(name) ==
    /\ StartsWith(name, fmt_sp)
    /\ LET parts == Split(From(name, Len(fmt_sp)), Ord("_"))
       IN  Len(parts) = 2 /\ IsDigits(parts[1]) /\ IsDigits(parts[2])

\* The reply spoofed to a BEGIN with text sql.
BeginReply(sql) ==
    IF Contains(sql, kw_set_transaction)
    THEN <<commandComplete(stmt_BEGIN), commandComplete(tag_SET),
           readyForQuery("transaction")>>
    ELSE <<commandComplete(stmt_BEGIN), readyForQuery("transaction")>>

C4_Step ==
    ev'.kind = "frontend" /\ in_test /\ kind_of[ev'.msg] = "begin" =>
        LET c == ev'.client
            sp == savepoints[c]
            name == savepoints'[c][Len(sp) + 1]
        IN  /\ Len(savepoints'[c]) = Len(sp) + 1
            /\ Popped(savepoints'[c]) = sp
            /\ IsSavepointName(name)
            /\ name = savepoint_name(clock')
            /\ toBackend' = serialize(query(fmt_savepoint \o name))
            /\ dropMessages' = dropMessages \o <<"C", "Z">>
            /\ delayed' = Spoofed(c, BeginReply(sql_of(FrontendMsgs[ev'.msg])))
            /\ toClient' = NoWrite

\* C4: a BEGIN received in a test writes to the backend exactly one query
\* SAVEPOINT <name>, the name generated at that moment from the clock
\* (sp_<digits>_<digits>), pushes that name on the issuing client's stack,
\* appends C, Z to the backend drop-list and spoofs to the client
\* CommandComplete(BEGIN), then CommandComplete(SET) when the text holds
\* 'set transaction', then ReadyForQuery(transaction).
C4_BeginInTest == [][C4_Step]_vars

\* C4 reached: the second BEGIN of a client in a test, with SET
\* TRANSACTION, at a later clock reading.
C4_Witness ==
    /\ ev.kind = "frontend"
    /\ kind_of[ev.msg] = "begin"
    /\ in_test
    /\ Len(savepoints[ev.client]) = 2
    /\ savepoints[ev.client][1] # savepoints[ev.client][2]
    /\ toBackend = serialize(query(fmt_savepoint \o savepoints[ev.client][2]))
    /\ delayed = Spoofed(ev.client, psyco_spoofed_begin)

\* The success reply to a COMMIT, END or ROLLBACK.
SuccessReply(k) ==
    <<commandComplete(IF k = "commit" THEN tag_COMMIT
                      ELSE IF k = "end" THEN tag_END_WORK
                      ELSE stmt_ROLLBACK),
      readyForQuery("transaction")>>

C5_Step ==
    /\ ev'.kind = "frontend"
    /\ in_test
    /\ savepoints[ev'.client] # <<>>
    /\ Closes(kind_of[ev'.msg], transactionStatus)
    =>  LET c == ev'.client
            k == kind_of[ev'.msg]
            sp == savepoints[c]
        IN  /\ toBackend' = serialize(query((IF k = "rollback" THEN fmt_rollback_to
                                             ELSE fmt_release) \o sp[Len(sp)]))
            /\ savepoints'[c] = Popped(sp)
            /\ delayed' = Spoofed(c, SuccessReply(k))

\* C5: in a test with a non-empty savepoint stack, a COMMIT / END WORK / END
\* TRANSACTION (transaction status not failed) goes to the backend as
\* RELEASE SAVEPOINT <name> and a ROLLBACK as ROLLBACK TO SAVEPOINT <name>,
\* <name> the most recently pushed name not yet popped; the name leaves the
\* stack and the client is spoofed the success reply, then
\* ReadyForQuery(transaction).
C5_ReleaseOrRollbackToSavepoint == [][C5_Step]_vars

\* C5 reached: a ROLLBACK took the newer of two different names.
C5_Witness ==
    /\ ev.kind = "frontend"
    /\ kind_of[ev.msg] = "rollback"
    /\ in_test
    /\ savepoints[ev.client] = <<savepoint_name(0)>>
    /\ toBackend = serialize(query(fmt_rollback_to \o savepoint_name(1)))
    /\ delayed = Spoofed(ev.client, spoofed_rollback)

\* The bytes of the success reply to each input that is a BEGIN, COMMIT, END
\* or ROLLBACK.
success_reply ==
    AsSeq([i \in FrontendInputs |->
              IF kind_of[i] = "begin"
              THEN serializeAll(BeginReply(sql_of(FrontendMsgs[i])))
              ELSE IF kind_of[i] \in {"commit", "end", "rollback"}
              THEN serializeAll(SuccessReply(kind_of[i]))
              ELSE <<>>])

C6_Step ==
    /\ ev'.kind = "frontend"
    /\ ~in_test
    /\ kind_of[ev'.msg] = "begin" \/ Closes(kind_of[ev'.msg], transactionStatus)
    =>  LET c == ev'.client
            k == kind_of[ev'.msg]
        IN  /\ toBackend' = <<>>
            /\ savepoints' = savepoints
            /\ dropMessages' = dropMessages
            /\ delayed' = <<[client |-> c, data |-> success_reply[ev'.msg]]>>

\* C6: outside a test every query whose lower-cased text starts with begin,
\* commit, end work, end transaction or rollback (not test syntax; for
\* commit / end with the transaction status not failed) writes zero bytes
\* to the backend, leaves the savepoint stack and the backend drop-list
\* unchanged, and spoofs to the issuing client CommandComplete(BEGIN |
\* COMMIT | END WORK | ROLLBACK), with CommandComplete(SET) for a begin
\* holding 'set transaction', then ReadyForQuery(transaction).
C6_DroppedAndSpoofedOutsideTest == [][C6_Step]_vars

\* C6 reached: END TRANSACTION outside a test, answered END WORK, with a
\* savepoint of an earlier test still on the client's stack.
C6_Witness ==
    /\ ev.kind = "frontend"
    /\ FrontendMsgs[ev.msg] = query(q_end_transaction)
    /\ ~in_test
    /\ savepoints[ev.client] # <<>>
    /\ toBackend = <<>>
    /\ delayed = Spoofed(ev.client, <<commandComplete(tag_END_WORK),
                                      readyForQuery("transaction")>>)

\* The 25P02 ErrorResponse and ReadyForQuery(failed), serialized.
aborted_reply ==
    serializeAll(<<errorResponse(<< <<Ord("S"), err_S>>, <<Ord("C"), err_C>>,
                                    <<Ord("M"), err_M>>, <<Ord("F"), err_F>>,
                                    <<Ord("L"), err_L>>, <<Ord("R"), err_R>> >>),
                   readyForQuery("failed")>>)

\* It is an error with SQLSTATE 25P02 and holds no success tag.
AbortedReplyIsError ==
    /\ aborted_reply[1] = Ord("E")
    /\ Contains(aborted_reply, B(<<"C", "2", "5", "P", "0", "2">>) \o <<0>>)
    /\ ~Contains(aborted_reply, tag_COMMIT)
    /\ ~Contains(aborted_reply, tag_END_WORK)

C7_Step ==
    /\ ev'.kind = "frontend"
    /\ kind_of[ev'.msg] \in {"commit", "end"}
    /\ transactionStatus = "failed"
    =>  /\ toBackend' = <<>>
        /\ delayed' = <<[client |-> ev'.client, data |-> aborted_reply]>>
        /\ AbortedReplyIsError
        /\ savepoints' = savepoints
        /\ dropMessages' = dropMessages

\* C7: while the backend's transaction status is failed, a COMMIT / END WORK
\* / END TRANSACTION (in or outside a test, with or without savepoints)
\* writes zero bytes to the backend, spoofs to the client the 25P02
\* ErrorResponse followed by ReadyForQuery(failed) and never the success
\* reply, and leaves the savepoint stack and the drop-list unchanged.
C7_FailedTransactionNotReleased == [][C7_Step]_vars

\* C7 reached: a COMMIT in a test, with a savepoint on the stack, in a
\* failed transaction.
C7_Witness ==
    /\ ev.kind = "frontend"
    /\ kind_of[ev.msg] = "commit"
    /\ transactionStatus = "failed"
    /\ in_test
    /\ savepoints[ev.client] # <<>>
    /\ toBackend = <<>>
    /\ delayed = Spoofed(ev.client, transaction_aborted)

\* The name between the quotes of a lower-cased BEGIN TEST / ROLLBACK TEST.
test_name(sql) == Split(sql, Ord("'"))[2]

\* What each BEGIN TEST / ROLLBACK TEST input is to become on its way to the
\* backend.
test_query ==
    AsSeq([i \in FrontendInputs |->
              IF kind_of[i] \in {"begin test", "rollback test"}
              THEN serialize(query((IF kind_of[i] = "begin test" THEN stmt_BEGIN
                                    ELSE stmt_ROLLBACK)
                                   \o B(<<";", " ", "-", "-", " ">>)
                                   \o test_name(sql_of(FrontendMsgs[i]))))
              ELSE <<>>])

C8_Step ==
    ev'.kind = "frontend" /\ kind_of[ev'.msg] \in {"begin test", "rollback test"} =>
        /\ in_test' = (kind_of[ev'.msg] = "begin test")
        /\ toBackend' = test_query[ev'.msg]
        /\ delayed' = delayed
        /\ savepoints' = savepoints
        /\ dropMessages' = dropMessages

\* C8: a query matching BEGIN TEST '<name>'[;] sets the session's in_test to
\* true and one matching ROLLBACK TEST '<name>'[;] sets it to false, in any
\* letter case; the query goes to the backend as <BEGIN|ROLLBACK>; -- <name>
\* (the name as the lower-cased text has it), no reply is spoofed, no
\* savepoint is pushed or popped and the drop-list is unchanged.
C8_TestSyntax == [][C8_Step]_vars

\* C8 reached: ROLLBACK TEST ends a test while the client holds a savepoint
\* an ordinary ROLLBACK would have taken.
C8_Witness ==
    /\ ev.kind = "frontend"
    /\ kind_of[ev.msg] = "rollback test"
    /\ ~in_test
    /\ savepoints[ev.client] # <<>>
    /\ toBackend = serialize(query(B(<<"R", "O", "L", "L", "B", "A", "C", "K", ";",
                                       " ", "-", "-", " ", "t">>)))
    /\ delayed = <<>>

\* The handshake has been captured: authenticationResponse ends in a Z.
HandshakeCaptured ==
    /\ authenticationResponse # <<>>
    /\ authenticationResponse[Len(authenticationResponse)].type = "Z"

\* The backend message of the step is the one the head of the drop-list
\* names.
Suppressed ==
    dropMessages # <<>> /\ BackendMsgs[ev'.msg].type = Head(dropMessages)

\* The step writes the backend message, as it came, to the active client.
PassesThrough ==
    toClient' = [client |-> currentClient(clientStack),
                 data |-> BackendMsgs[ev'.msg].buffer]

C2_Step ==
    ev'.kind = "backend" =>
        IF Suppressed
        THEN toClient' = NoWrite /\ dropMessages' = Tail(dropMessages)
        ELSE /\ dropMessages' = dropMessages
             /\ IF HandshakeCaptured /\ BackendMsgs[ev'.msg].type \in {"R", "K"}
                THEN toClient' = NoWrite
                ELSE clientStack # <<>> => PassesThrough

\* C2 (amended): a backend message is suppressed (written to no client)
\* exactly when its type is the code at the head of the drop-list, which it
\* then consumes, so that the suppressed messages are the first occurrences
\* of the enqueued codes in order; every other backend message passes
\* through unchanged to the active client, except an R or K that arrives
\* after the handshake has been captured, which is refused and written to
\* no client.
C2_DropList == [][C2_Step]_vars

\* C2 reached: with C, Z to ignore a ReadyForQuery passed through to the
\* client because the C was still due, and the list is unchanged.
C2_Witness ==
    /\ ev.kind = "backend"
    /\ BackendMsgs[ev.msg].type = "Z"
    /\ dropMessages = <<"C", "Z">>
    /\ toClient = [client |-> currentClient(clientStack),
                   data |-> BackendMsgs[ev.msg].buffer]

C2_StepAsStated ==
    ev'.kind = "backend" =>
        IF Suppressed
        THEN toClient' = NoWrite /\ dropMessages' = Tail(dropMessages)
        ELSE /\ dropMessages' = dropMessages
             /\ clientStack # <<>> => PassesThrough

\* C2 as stated: the suppressed backend messages are exactly the first
\* occurrences of the enqueued type codes, in order, and every other backend
\* message passes through unchanged to the active client.
C2_AsStated == [][C2_StepAsStated]_vars

C9_Step ==
    /\ /\ ev'.kind = "frontend"
       /\ FrontendMsgs[ev'.msg].type = "Startup"
       /\ HandshakeCaptured
       => /\ toBackend' = <<>>
          /\ delayed' =
                 <<[client |-> ev'.client,
                    data |-> Flatten(AsSeq([k \in 1..Len(authenticationResponse) |->
                                               authenticationResponse[k].buffer]))]>>
    /\ ev'.kind = "spoof" =>
          /\ toClient' = Head(delayed)
          /\ toClient'.client = ev'.client
          /\ toBackend' = <<>>

\* C9: once the handshake has been captured, a Startup message from any
\* client writes zero bytes to the backend and has exactly the serialized
\* concatenation of the current authenticationResponse, in order, written
\* to that client's transport by the deferred call.
C9_StartupAnsweredFromCache == [][C9_Step]_vars

\* C9 reached: the second client got R, S, Z of the captured handshake.
C9_Witness ==
    /\ ev.kind = "spoof"
    /\ ev.client = 2
    /\ Len(authenticationResponse) = 3
    /\ authenticationResponse[1].type = "R"
    /\ authenticationResponse[2].type = "S"
    /\ HandshakeCaptured
    /\ toClient = [client |-> 2, data |-> serializeAll(authenticationResponse)]

C10_Step ==
    /\ ev'.kind = "backend"
    /\ BackendMsgs[ev'.msg].type = "S"
    /\ HandshakeCaptured
    /\ ~Suppressed
    =>  LET msg == BackendMsgs[ev'.msg]
            auth == authenticationResponse
        IN  /\ Len(authenticationResponse') = Len(auth)
            /\ \A k \in 1..Len(auth) :
                   authenticationResponse'[k] =
                       IF auth[k].type = "S" /\ name_of(auth[k]) = name_of(msg)
                       THEN msg ELSE auth[k]
            /\ clientStack # <<>> => PassesThrough

\* C10: after the handshake is captured, a ParameterStatus(name = k) from
\* the backend replaces the entry of authenticationResponse named k at its
\* index, leaves every other entry and the length unchanged, and is still
\* transmitted to the active client.
C10_ParameterStatusOverwrites == [][C10_Step]_vars

\* C10 refuted: a ParameterStatus with an empty name has taken the place of
\* the R and the Z of the captured handshake.
C10_Witness ==
    /\ ev.kind = "backend"
    /\ BackendMsgs[ev.msg].type = "S"
    /\ name_of(BackendMsgs[ev.msg]) = <<>>
    /\ Len(authenticationResponse) = 3
    /\ authenticationResponse[1] = BackendMsgs[ev.msg]
    /\ authenticationResponse[2].type = "S"
    /\ name_of(authenticationResponse[2]) # <<>>
    /\ authenticationResponse[3] = BackendMsgs[ev.msg]


\* The backend message of the step is part of a handshake: R, S, K or Z.
IsAuthMessage == BackendMsgs[ev'.msg].type \in {"R", "S", "K", "Z"}

C11_Step ==
    /\ ev'.kind = "backend" /\ IsAuthMessage /\ ~HandshakeCaptured =>
           authenticationResponse' =
               Append(authenticationResponse, BackendMsgs[ev'.msg])
    /\ HandshakeCaptured =>
           /\ authenticationResponse' = authenticationResponse
           /\ HandshakeCaptured'

\* C11: authenticationResponse holds, in arrival order, exactly the R, S, K
\* and Z messages received from the backend up to and including the first
\* Z: until the first Z every such message is appended as it arrives, and
\* once the list ends in a Z (authenticationComplete) it stays as it is, no
\* later message is ever appended after that Z.
C11_HandshakeCapturedOnce ==
    /\ authenticationComplete(authenticationResponse) <=> HandshakeCaptured
    /\ [][C11_Step]_vars

\* C11, its last part alone: once the list ends in a Z it stays complete
\* and does not grow.
C11_NothingAfterZ ==
    [][HandshakeCaptured =>
           /\ HandshakeCaptured'
           /\ Len(authenticationResponse') = Len(authenticationResponse)]_vars

\* C11 refuted: the handshake was R, Z; a ParameterStatus with an empty
\* name took the place of both, the list was open again, and the
\* ReadyForQuery that came next was appended to it.
C11_Witness ==
    /\ ev.kind = "backend"
    /\ BackendMsgs[ev.msg].type = "Z"
    /\ Len(authenticationResponse) = 3
    /\ authenticationResponse[1].type = "S"
    /\ authenticationResponse[2] = authenticationResponse[1]
    /\ authenticationResponse[3] = BackendMsgs[ev.msg]
    /\ ~dead

C12_Step ==
    /\ ev'.kind = "backend"
    /\ BackendMsgs[ev'.msg].type \in {"R", "K"}
    /\ HandshakeCaptured
    /\ ~Suppressed
    =>  /\ saveAuthMessage(authenticationResponse, BackendMsgs[ev'.msg]).err
               = "AssertionError"
        /\ authenticationResponse' = authenticationResponse
        /\ toClient' = NoWrite
        /\ dead'

\* C12: after authenticationComplete an R or K message from the backend
\* fails with the AssertionError of saveAuthMessage; authenticationResponse
\* is left unchanged and the message is written to no client (the error
\* ends the backend connection).
C12_UnexpectedAuthMessage == [][C12_Step]_vars

\* C12 reached: a BackendKeyData arrived after a handshake R, S, Z with a
\* client attached; nothing was written and the session is dead.
C12_Witness ==
    /\ ev.kind = "backend"
    /\ BackendMsgs[ev.msg].type = "K"
    /\ HandshakeCaptured
    /\ Len(authenticationResponse) = 3
    /\ authenticationResponse[1].type = "R"
    /\ clientStack # <<>>
    /\ toClient = NoWrite
    /\ dead

C13_Step ==
    IF ev'.kind = "backend" /\ BackendMsgs[ev'.msg].type = "Z"
    THEN /\ transactionStatus' = transaction_status(BackendMsgs[ev'.msg])
         /\ ~Suppressed /\ clientStack # <<>> => PassesThrough
    ELSE transactionStatus' = transactionStatus

\* C13: transactionStatus is the status carried by the most recent
\* ReadyForQuery received from the backend, None before the first: every Z
\* of the backend stream sets it, also one that the drop-list suppresses,
\* no other event changes it, and every Z that is not suppressed is
\* transmitted to the active client.
C13_StatusOfLastReadyForQuery ==
    /\ (ev.kind = "init" => transactionStatus = "None")
    /\ [][C13_Step]_vars

\* C13 refuted: the ReadyForQuery(failed) that answered a translated BEGIN
\* was suppressed by the drop-list and transactionStatus still has its old
\* value.
C13_Witness ==
    /\ ev.kind = "backend"
    /\ BackendMsgs[ev.msg].type = "Z"
    /\ transaction_status(BackendMsgs[ev.msg]) = "failed"
    /\ transactionStatus # "failed"
    /\ toClient = NoWrite
    /\ ~dead

\* The type codes of the messages in data written to the backend, one
\* after the other (a typeless message, which only opens a stream, counts
\* as the rest of the data).
RECURSIVE TypesIn(_)
TypesIn(data) ==
    IF data = <<>> THEN <<>>
    ELSE IF data[1] = 0 THEN <<"Startup">>
    ELSE <<TypeCode(data[1])>> \o TypesIn(From(data, unpack_int32_from(data, 1) + 1))

WritesTerminate(data) == \E k \in 1..Len(TypesIn(data)) : TypesIn(data)[k] = "X"

C14_Step ==
    /\ ev'.kind = "frontend" /\ FrontendMsgs[ev'.msg].type = "X" =>
           /\ toBackend' = <<>>
           /\ delayed' = delayed
    /\ ev'.kind # "stop" => ~WritesTerminate(toBackend')
    /\ ev'.kind = "stop" =>
           /\ postgresProtocol => toBackend' = serialize(terminate)
           /\ ~postgresProtocol => toBackend' = <<>>

\* C14: a Terminate from any client is dropped and writes zero bytes to the
\* backend transport; the only Terminate ever written to the backend is the
\* one of the factory's stop, which is sent if and only if the factory holds
\* a backend session at that time.
C14_TerminateOnlyOnStop == [][C14_Step]_vars

\* C14 reached: the factory stopped with a client attached to a live
\* session and the Terminate went to the backend.
C14_Witness ==
    /\ ev.kind = "stop"
    /\ clientStack # <<>>
    /\ ~dead
    /\ toBackend = <<88, 0, 0, 0, 4>>

\* The frontend message of the step is neither a Startup, a Terminate nor a
\* query one of the five matchers of filter_Q matches.
Unmatched ==
    /\ ev'.kind = "frontend"
    /\ kind_of[ev'.msg] \notin {"Startup", "X", "begin test", "rollback test",
                                "begin", "commit", "end", "rollback"}

C15_Step ==
    Unmatched =>
        /\ toBackend' = FrontendMsgs[ev'.msg].buffer
        /\ delayed' = delayed
        /\ in_test' = in_test
        /\ savepoints' = savepoints
        /\ dropMessages' = dropMessages

\* C15: every frontend message that is not a Startup, a Terminate or a
\* query matched by one of the five matchers is written to the backend byte
\* for byte unchanged, produces no spoof, and changes neither in_test, the
\* savepoint stacks nor the drop-list.
C15_TransmittedUnchanged == [][C15_Step]_vars

\* C15 reached: in a test, with a savepoint on the stack and C, Z to
\* ignore, a cancel request went to the backend as it came.
C15_Witness ==
    /\ ev.kind = "frontend"
    /\ FrontendMsgs[ev.msg].type = "Cancel"
    /\ in_test
    /\ savepoints[ev.client] # <<>>
    /\ dropMessages = <<"C", "Z">>
    /\ toBackend = <<0, 0, 0, 16, 128, 135, 113, 2, 0, 0, 0, 1, 0, 0, 0, 2>>

(***************************************************************************)
(* protocol.py: MessageProtocol, the framer, on the bytes of a stream.     *)
(* messages.py: Message.consume as the framer calls it, with whatever the  *)
(* read brought, on a FrontendMessage.                                     *)
(***************************************************************************)
\* Message.__init__: buf and pos are the str_buf and the pos of its
\* FIFOBuffer.
NewMessage ==
    [buf |-> <<>>, pos |-> 0, parsed_header |-> FALSE, type |-> "", length |-> -1]

\* The type of an ordinary packet: its first byte as a character.
TypeOf(b) == IF b \in 32..126 THEN TypeCode(b) ELSE "\\x" \o ToString(b)

\* Message.parse_header with FrontendMessage.parse_special_header, on the
\* message m whose buffer holds buf: the message it leaves, whether the
\* header is parsed, and the exception it raises.
parse_header(m, buf) ==
    IF m.parsed_header
    THEN [m |-> [m EXCEPT !.buf = buf], ok |-> TRUE, err |-> ""]
    ELSE IF Len(buf) < 5
    THEN [m |-> [m EXCEPT !.buf = buf], ok |-> FALSE, err |-> ""]
    ELSE IF buf[1] # 0
    THEN [m |-> [buf |-> buf, pos |-> 5, parsed_header |-> TRUE, type |-> TypeOf(buf[1]),
                 length |-> unpack_int32_from(buf, 1) + 1],
          ok |-> TRUE, err |-> ""]
    ELSE IF Len(buf) - 1 < 7
    THEN [m |-> [m EXCEPT !.buf = buf], ok |-> FALSE, err |-> ""]
    ELSE LET t == special_type(unpack_int16_from(buf, 4), unpack_int16_from(buf, 6))
         IN  IF t = "Unknown"
             THEN [m |-> [m EXCEPT !.buf = buf, !.pos = 8], ok |-> FALSE,
                   err |-> "ValueError"]
             ELSE [m |-> [buf |-> buf, pos |-> 8, parsed_header |-> TRUE, type |-> t,
                          length |-> unpack_int16_from(buf, 2)],
                   ok |-> TRUE, err |-> ""]

\* Message.parse_body: the exception of the parse_<type> of a
\* FrontendMessage that reads past the end of the truncated buffer
\* (parse_C reads a character, parse_Cancel two 32-bit integers).
parse_body(type, length) ==
    IF type = "C" /\ length <= 5 THEN "IndexError"
    ELSE IF type = "Cancel" /\ length < 16 THEN "struct.error"
    ELSE ""

\* The pos that the parse_<type> of a FrontendMessage leaves, from pos and
\* a buffer of size bytes: get_char and get_int32 advance pos before they
\* read, so a read that raises has advanced it too (parse_C reads a
\* character; parse_Cancel two 32-bit integers, the second only if the
\* first did not raise).
parse_body_pos(type, pos, size) ==
    IF type = "C" THEN pos + 1
    ELSE IF type = "Cancel" THEN (IF size < pos + 4 THEN pos + 4 ELSE pos + 8)
    ELSE pos

\* Message.consume(data) on message m: done, the bytes left over, the
\* message as it is now, the exception raised.
Message_consume(m, data) ==
    LET h == parse_header(m, m.buf \o data)
        buf == h.m.buf
        len == h.m.length
    IN  IF h.err # "" THEN [done |-> FALSE, extra |-> <<>>, m |-> h.m, err |-> h.err]
        ELSE IF ~h.ok \/ Len(buf) < len
        THEN [done |-> FALSE, extra |-> <<>>, m |-> h.m, err |-> ""]
        ELSE [done |-> TRUE, extra |-> From(buf, len),
              m |-> [h.m EXCEPT !.buf = Upto(buf, len),
                                !.pos = parse_body_pos(h.m.type, h.m.pos,
                                                       Len(Upto(buf, len)))],
              err |-> parse_body(h.m.type, len)]

\* The message a completed parse hands on: type, length, bytes and data.
Parsed(m) ==
    Message(m.type, m.length, m.buf, IF m.buf # <<>> /\ m.buf[1] = 0 THEN 8 ELSE 5)

\* MessageProtocol.dataReceived, the loop: from the pending message, the
\* data and the queue so far to the pending message and the queue it
\* leaves.  An exception leaves the loop at once; a fresh message that
\* completes and hands back all of its data as extra does so again on
\* every later turn, and the loop never ends ("hang").
RECURSIVE dataReceived_loop(_, _, _)
dataReceived_loop(pending, data, queue) ==
    LET r == Message_consume(IF pending = <<>> THEN NewMessage ELSE pending[1], data)
    IN  IF r.err # ""
        THEN [status |-> r.err, pending |-> pending, queue |-> queue]
        ELSE IF ~r.done
        THEN [status |-> "ok", pending |-> <<r.m>>, queue |-> queue]
        ELSE IF r.extra = <<>>
        THEN [status |-> "ok", pending |-> <<>>, queue |-> Append(queue, Parsed(r.m))]
        ELSE IF pending = <<>> /\ r.extra = data
        THEN [status |-> "hang", pending |-> <<>>, queue |-> queue]
        ELSE dataReceived_loop(<<>>, r.extra, Append(queue, Parsed(r.m)))

\* The messages of the streams, as they are on the wire: a Sync, a query,
\* a Startup without parameters, a typeless packet of unknown code, a
\* Startup header that declares the length 0, one that declares 4, and a
\* Terminate that declares 0.
WireMsgs ==
    << <<Ord("S"), 0, 0, 0, 4>>,
       <<Ord("Q"), 0, 0, 0, 5, Ord("N")>>,
       <<0, 0, 0, 9, 0, 3, 0, 0, 0>>,
       <<0, 0, 0, 8, 0, 0, 0, 0>>,
       <<0, 0, 0, 0, 0, 3, 0, 0>>,
       <<0, 0, 0, 4, 0, 3, 0, 0>>,
       <<Ord("X"), 0, 0, 0, 0>> >>

\* The byte streams: up to MaxFrames of these messages, one after the other.
Streams ==
    UNION {{Flatten(AsSeq([k \in 1..n |-> WireMsgs[f[k]]])) :
                f \in [1..n -> 1..Len(WireMsgs)]} : n \in 1..MaxFrames}

\* A connection with a stream to read and a new MessageProtocol.
InitFramer ==
    /\ InitSession
    /\ InitReactor
    /\ LiveSession
    /\ unread \in Streams
    /\ fed = <<>>
    /\ _message = <<>>
    /\ delivered = <<>>
    /\ framing = "ok"

\* MessageProtocol.dataReceived on a read of n bytes, and _receive: the
\* queue goes to messageReceived when the loop ends; an exception raised in
\* the loop leaves dataReceived before _receive and ends the connection.
dataReceived(n) ==
    LET r == dataReceived_loop(_message, Upto(unread, n), <<>>)
    IN  /\ framing = "ok"
        /\ n <= Len(unread)
        /\ unread' = From(unread, n)
        /\ fed' = fed \o Upto(unread, n)
        /\ framing' = r.status
        /\ _message' = r.pending
        /\ delivered' = IF r.status = "ok" THEN delivered \o r.queue ELSE delivered
        /\ UNCHANGED <<session, reactor, factory>>

NextFramer == \E n \in 1..Len(unread) : dataReceived(n)

SpecFramer == InitFramer /\ [][NextFramer]_vars

\* dataReceived on a new MessageProtocol, with the whole of the bytes in
\* one call: what it hands to messageReceived, and what it leaves pending.
OneCall(bytes) ==
    LET r == dataReceived_loop(<<>>, bytes, <<>>)
    IN  [status |-> r.status, pending |-> r.pending,
         delivered |-> IF r.status = "ok" THEN r.queue ELSE <<>>]

\* The stream ends inside a message: going from message to message by the
\* lengths their headers declare, the last one is short of its header or
\* of its length.
RECURSIVE EndsInside(_)
EndsInside(bytes) ==
    IF bytes = <<>> THEN FALSE
    ELSE IF Len(bytes) < 5 THEN TRUE
    ELSE IF bytes[1] # 0
    THEN LET n == unpack_int32_from(bytes, 1) + 1
         IN  Len(bytes) < n \/ EndsInside(From(bytes, n))
    ELSE IF Len(bytes) < 8 THEN TRUE
    ELSE LET n == unpack_int16_from(bytes, 2)
         IN  Len(bytes) < n \/ (n > 0 /\ EndsInside(From(bytes, n)))

\* C16: for every byte stream and every way of splitting it into chunks,
\* feeding the chunks in order to dataReceived delivers to messageReceived
\* the same sequence of messages (same type, length and bytes) as feeding
\* the concatenation in one call; and after the last chunk parsingMessage
\* is true if and only if the stream ends inside a message.
C16_ChunkingInvariance ==
    fed # <<>> =>
        /\ delivered = OneCall(fed).delivered
        /\ framing = "ok" => ((_message # <<>>) <=> EndsInside(fed))

\* C16 for the streams the framer reads without an exception and without
\* hanging: for them the chunks and the one call deliver the same.
C16_WhenParsed ==
    fed # <<>> /\ OneCall(fed).status = "ok" =>
        /\ framing = "ok"
        /\ delivered = OneCall(fed).delivered
        /\ _message = OneCall(fed).pending
        /\ (_message # <<>>) <=> EndsInside(fed)

\* C16 refuted: a Sync came in a read of its own and was delivered; the
\* packet of unknown code behind it raised ValueError.  In one call the
\* exception leaves dataReceived before _receive, and nothing is delivered.
C16_Witness ==
    /\ framing = "ValueError"
    /\ Len(delivered) = 1
    /\ delivered[1].type = "S"
    /\ fed = <<83, 0, 0, 0, 4, 0, 0, 0, 8, 0, 0, 0, 0>>
    /\ OneCall(fed).delivered = <<>>

\* C17: MessageProtocol.dataReceived terminates for every input chunk: it
\* never loops forever on a completed message, for every declared length,
\* including a typeless message whose 16-bit length is 0 or smaller than
\* its header.
C17_DataReceivedTerminates == framing # "hang"

\* C17 refuted: a read brought a Startup header that declares the length 0.
\* The message completed with an empty buffer and gave all eight bytes back
\* as extra; the loop feeds them to a new message, which does the same.
C17_Witness ==
    /\ framing = "hang"
    /\ fed = <<0, 0, 0, 0, 0, 3, 0, 0>>
    /\ LET r == Message_consume(NewMessage, fed)
       IN  r.done /\ r.m.length = 0 /\ r.extra = fed

(***************************************************************************)
(* The reactor.  Its loop alternates runUntilCurrent, which runs the       *)
(* delayed calls that are due (those of callLater(0) all are), and         *)
(* doIteration, which first flushes what the handlers of the iteration     *)
(* before wrote to the transports and then dispatches the reads that are   *)
(* ready, any number of them.  The specifications above take one read per  *)
(* iteration; this one takes them as they come.  sent, nseq and spoofSeq   *)
(* number the clients' messages so that a reply finds its query.           *)
(***************************************************************************)
\* The messages of this specification: SELECT, BEGIN TEST and BEGIN from
\* the clients; CommandComplete and ReadyForQuery(idle) from the backend.
ReactorFrontendInputs == {3, 4, 6}

ReactorBackendInputs == {1, 3}

\* A client's connection is accepted.
accept(c) ==
    /\ phase = "io"
    /\ connectionMade(c)
    /\ UNCHANGED <<framer, reactor, factory>>

\* A read of client c's socket: PGProxyProtocol.messageReceived.  What it
\* writes to the backend stays in the transport's buffer.
clientRead(c, i) ==
    /\ phase = "io"
    /\ nseq < MaxSeq
    /\ FrontendMessageReceived(c, i, clock)
    /\ nseq' = nseq + 1
    /\ sent' = IF toBackend' # <<>>
               THEN Append(sent, [client |-> c, seq |-> nseq + 1, flushed |-> FALSE])
               ELSE sent
    /\ spoofSeq' = spoofSeq \o
                       AsSeq([k \in 1..(Len(delayed') - Len(delayed)) |-> nseq + 1])
    /\ UNCHANGED <<phase, framer, factory>>

\* A read of the backend's socket: a message of the reply to the oldest
\* query the backend was sent; its ReadyForQuery ends the reply.
backendRead(i) ==
    /\ phase = "io"
    /\ sent # <<>>
    /\ Head(sent).flushed
    /\ BackendMessageReceived(i)
    /\ sent' = IF BackendMsgs[i].type = "Z" THEN Tail(sent) ELSE sent
    /\ UNCHANGED <<phase, nseq, spoofSeq, framer, factory>>

\* The reads of the iteration are done and there is something to run or to
\* flush: the loop goes on to runUntilCurrent.
runUntilCurrent ==
    /\ phase = "io"
    /\ ~dead
    /\ delayed # <<>> \/ \E k \in 1..Len(sent) : ~sent[k].flushed
    /\ phase' = "timers"
    /\ ev' = Event("timers", 0, 0)
    /\ toBackend' = <<>>
    /\ toClient' = NoWrite
    /\ UNCHANGED <<conn, clientStack, authenticationResponse, transactionStatus,
                   in_test, dead, dropMessages, savepoints, delayed, clock, begun,
                   nseq, sent, spoofSeq, framer, factory>>

\* runUntilCurrent runs the oldest call that is due.
delayedCall ==
    /\ phase = "timers"
    /\ runDelayedCall
    /\ spoofSeq' = Tail(spoofSeq)
    /\ UNCHANGED <<phase, nseq, sent, framer, factory>>

\* A reactor that polls while a call is still due, as it would were the
\* spoof scheduled with a delay.
doIteration_calls_pending ==
    /\ phase = "timers"
    /\ phase' = "io"
    /\ sent' = AsSeq([k \in 1..Len(sent) |-> [sent[k] EXCEPT !.flushed = TRUE]])
    /\ ev' = Event("poll", 0, 0)
    /\ toBackend' = <<>>
    /\ toClient' = NoWrite
    /\ UNCHANGED <<conn, clientStack, authenticationResponse, transactionStatus,
                   in_test, dead, dropMessages, savepoints, delayed, clock, begun,
                   nseq, spoofSeq, framer, factory>>

\* Every call that was due has run: doIteration flushes the transports and
\* polls.
doIteration ==
    /\ phase = "timers"
    /\ delayed = <<>>
    /\ phase' = "io"
    /\ sent' = AsSeq([k \in 1..Len(sent) |-> [sent[k] EXCEPT !.flushed = TRUE]])
    /\ ev' = Event("poll", 0, 0)
    /\ toBackend' = <<>>
    /\ toClient' = NoWrite
    /\ UNCHANGED <<conn, clientStack, authenticationResponse, transactionStatus,
                   in_test, dead, dropMessages, savepoints, delayed, clock, begun,
                   nseq, spoofSeq, framer, factory>>

NextReactor ==
    \/ \E c \in Clients : accept(c)
    \/ \E c \in Clients, i \in ReactorFrontendInputs : clientRead(c, i)
    \/ \E i \in ReactorBackendInputs : backendRead(i)
    \/ runUntilCurrent
    \/ delayedCall
    \/ doIteration

SpecReactor == Init /\ [][NextReactor]_vars

\* C18: the spoofed reply to a message M of a client is written to that
\* client before any backend reply to a message the client sent after M,
\* and after the synchronous effects of handling M.  A backend message that
\* is written to the client whose query is being answered finds no spoof
\* of an earlier message of that client still waiting; the handler that
\* schedules a spoof writes nothing to the client itself; the call that
\* writes the spoof touches neither the backend, nor the savepoints, nor
\* the drop list.
C18_Step ==
    /\ (/\ ev'.kind = "backend"
        /\ sent # <<>>
        /\ toClient' # NoWrite
        /\ toClient'.client = Head(sent).client)
           => \A k \in 1..Len(delayed) :
                  delayed[k].client = Head(sent).client
                      => spoofSeq[k] >= Head(sent).seq
    /\ (ev'.kind = "frontend" /\ Len(delayed') > Len(delayed))
           => /\ toClient' = NoWrite
              /\ SubSeq(delayed', 1, Len(delayed)) = delayed
              /\ \A k \in (Len(delayed) + 1)..Len(delayed') :
                     delayed'[k].client = ev'.client /\ spoofSeq'[k] = nseq'
    /\ ev'.kind = "spoof"
           => /\ toClient' = Head(delayed)
              /\ toBackend' = <<>>
              /\ savepoints' = savepoints
              /\ dropMessages' = dropMessages

C18_SpoofBeforeLaterReplies == [][C18_Step]_vars

\* The backend's CommandComplete for the third message of a client reaches
\* it; its second message, a BEGIN inside a test, was answered by a spoof.
C18_Witness ==
    /\ ev.kind = "backend"
    /\ BackendMsgs[ev.msg].type = "C"
    /\ sent # <<>>
    /\ Head(sent).seq = 3
    /\ toClient.client = Head(sent).client
    /\ in_test
    /\ savepoints[Head(sent).client] # <<>>
    /\ delayed = <<>>

\* C19: a client activates itself before its message is filtered, a backend
\* message that is transmitted is written to the client on top of
\* clientStack, and so the reply to a query of client C finds C on top and
\* goes to C when no client has sent a message since that query.
C19_Activates ==
    ev'.kind = "frontend" => currentClient(clientStack') = ev'.client

C19_ToTheTop ==
    (ev'.kind = "backend" /\ toClient' # NoWrite)
        => toClient'.client = currentClient(clientStack)

C19_Step ==
    /\ C19_Activates
    /\ C19_ToTheTop
    /\ (ev'.kind = "backend" /\ sent # <<>> /\ Head(sent).seq = nseq)
           => /\ currentClient(clientStack) = Head(sent).client
              /\ toClient' # NoWrite => toClient'.client = Head(sent).client

C19_ReplyToSender == [][C19_Step]_vars

\* The two premises alone.
C19_ActivateThenRoute == [][C19_Activates /\ C19_ToTheTop]_vars

\* The CommandComplete that answers the last message any client sent was
\* written to a client that did not send it.
C19_Witness ==
    /\ ev.kind = "backend"
    /\ BackendMsgs[ev.msg].type = "C"
    /\ sent # <<>>
    /\ Head(sent).seq = nseq
    /\ toClient # NoWrite
    /\ toClient.client # Head(sent).client
    /\ conn[Head(sent).client] = "open"

(***************************************************************************)
(* The client stack by itself: a PostgresClientProtocol whose clients are  *)
(* attached, activated and detached by direct calls, as its unit tests     *)
(* do.  No connection is involved and no message is being parsed.          *)
(***************************************************************************)
StackClients == 1..MaxStack

Attached == {clientStack[k] : k \in 1..Len(clientStack)}

StackOp(kind, c) ==
    /\ ev' = Event(kind, c, 0)
    /\ toBackend' = <<>>
    /\ toClient' = NoWrite
    /\ UNCHANGED <<conn, authenticationResponse, transactionStatus, in_test, dead,
                   dropMessages, savepoints, delayed, clock, begun, framer, reactor, factory>>

\* p.attachClient(c), once per client.
attach(c) ==
    /\ c \notin Attached
    /\ clientStack' = attachClient(clientStack, c, parsingMessage).stack
    /\ StackOp("attach", c)

\* p.detachClient(c) of an attached client.
detach(c) ==
    /\ c \in Attached
    /\ clientStack' = detachClient(clientStack, c)
    /\ StackOp("detach", c)

\* p.activateClient(c) of an attached client.
activate(c) ==
    /\ c \in Attached
    /\ clientStack' = activateClient(clientStack, c)
    /\ StackOp("activate", c)

\* p.currentClient(); the event records what it returned.
getPeer ==
    /\ clientStack' = clientStack
    /\ StackOp("current", currentClient(clientStack))

NextStack ==
    \/ \E c \in StackClients : attach(c)
    \/ \E c \in StackClients : detach(c)
    \/ \E c \in StackClients : activate(c)
    \/ getPeer

SpecStack == Init /\ [][NextStack]_vars

\* The stack without client c, in order.
Others(stack, c) == SelectSeq(stack, LAMBDA x : x # c)

\* C20: attach(c) makes c the top of clientStack; activate(c) moves an
\* attached c to the top, keeps the order of the others and does nothing
\* when c is on top already; detach(c) removes c and keeps the order of the
\* others, so that detaching the active client makes the one below it
\* current; currentClient() is the top of the stack, or nil (0) when the
\* stack is empty.
C20_Step ==
    LET c == ev'.client
        n == Len(clientStack)
    IN  /\ ev'.kind = "attach"
            => /\ Len(clientStack') = n + 1
               /\ clientStack'[n + 1] = c
               /\ SubSeq(clientStack', 1, n) = clientStack
               /\ currentClient(clientStack') = c
        /\ ev'.kind = "activate"
            => /\ Len(clientStack') = n
               /\ clientStack'[n] = c
               /\ Others(clientStack', c) = Others(clientStack, c)
               /\ clientStack[n] = c => clientStack' = clientStack
        /\ ev'.kind = "detach"
            => /\ clientStack' = Others(clientStack, c)
               /\ Len(clientStack') = n - 1
               /\ (clientStack[n] = c /\ n > 1)
                      => currentClient(clientStack') = clientStack[n - 1]
        /\ ev'.kind = "current"
            => /\ clientStack = <<>> => c = 0
               /\ clientStack # <<>> => c = clientStack[n]

C20_StackDiscipline == [][C20_Step]_vars

\* A client in the middle of a stack of four was activated: it is on top
\* and the three others are in the order they were attached in.
C20_Witness ==
    /\ ev.kind = "activate"
    /\ Len(clientStack) = 4
    /\ clientStack[4] = 2
    /\ SubSeq(clientStack, 1, 3) = <<1, 3, 4>>

(***************************************************************************)
(* The backend session on the bytes of its stream: the framer of           *)
(* PostgresClientProtocol (a MessageProtocol on BackendMessage), the       *)
(* BackendFilter on every message it completes, and the clients that       *)
(* connect, send and disconnect between the reads.                         *)
(***************************************************************************)
\* Message.parse_header on a BackendMessage: a packet that opens with a
\* zero byte goes to Message.parse_special_header, which raises.
BackendMessage_parse_header(m, buf) ==
    IF m.parsed_header
    THEN [m |-> [m EXCEPT !.buf = buf], ok |-> TRUE, err |-> ""]
    ELSE IF Len(buf) < 5
    THEN [m |-> [m EXCEPT !.buf = buf], ok |-> FALSE, err |-> ""]
    ELSE IF buf[1] # 0
    THEN [m |-> [buf |-> buf, pos |-> 5, parsed_header |-> TRUE, type |-> TypeOf(buf[1]),
                 length |-> unpack_int32_from(buf, 1) + 1],
          ok |-> TRUE, err |-> ""]
    ELSE [m |-> [m EXCEPT !.buf = buf, !.pos = 1], ok |-> FALSE, err |-> "ValueError"]

\* Message.parse_body on a BackendMessage whose truncated buffer is buf:
\* the exception of the parse_<type> that reads past the end of the buffer
\* (parse_R reads a 32-bit integer, parse_Z and parse_E a character) or
\* finds no second string (parse_S).
BackendMessage_parse_body(type, buf) ==
    IF type = "R" /\ Len(buf) < 9 THEN "struct.error"
    ELSE IF type \in {"Z", "E"} /\ Len(buf) < 6 THEN "IndexError"
    ELSE IF type = "S" /\ Len(Split(From(buf, 5), 0)) < 2 THEN "ValueError"
    ELSE ""

\* The pos that the parse_<type> of a BackendMessage leaves: parse_R reads
\* a 32-bit integer, parse_Z and parse_E a character.
BackendMessage_parse_body_pos(type, pos) ==
    IF type = "R" THEN pos + 4
    ELSE IF type \in {"Z", "E"} THEN pos + 1
    ELSE pos

\* The leftover counted from the start of the chunk, not of the buffer.
BackendMessage_consume_chunk(m, data) ==
    LET h == BackendMessage_parse_header(m, m.buf \o data)
        buf == h.m.buf
        len == h.m.length
    IN  IF h.err # "" THEN [done |-> FALSE, extra |-> <<>>, m |-> h.m, err |-> h.err]
        ELSE IF ~h.ok \/ Len(buf) < len
        THEN [done |-> FALSE, extra |-> <<>>, m |-> h.m, err |-> ""]
        ELSE [done |-> TRUE, extra |-> From(data, len),
              m |-> [h.m EXCEPT !.buf = Upto(buf, len),
                                !.pos = BackendMessage_parse_body_pos(h.m.type, h.m.pos)],
              err |-> BackendMessage_parse_body(h.m.type, Upto(buf, len))]

\* Message.consume(data) on the BackendMessage m.
BackendMessage_consume(m, data) ==
    LET h == BackendMessage_parse_header(m, m.buf \o data)
        buf == h.m.buf
        len == h.m.length
    IN  IF h.err # "" THEN [done |-> FALSE, extra |-> <<>>, m |-> h.m, err |-> h.err]
        ELSE IF ~h.ok \/ Len(buf) < len
        THEN [done |-> FALSE, extra |-> <<>>, m |-> h.m, err |-> ""]
        ELSE [done |-> TRUE, extra |-> From(buf, len),
              m |-> [h.m EXCEPT !.buf = Upto(buf, len),
                                !.pos = BackendMessage_parse_body_pos(h.m.type, h.m.pos)],
              err |-> BackendMessage_parse_body(h.m.type, Upto(buf, len))]

\* MessageProtocol.dataReceived, the loop, on the backend session.
RECURSIVE backend_loop(_, _, _)
backend_loop(pending, data, queue) ==
    LET r == BackendMessage_consume(IF pending = <<>> THEN NewMessage ELSE pending[1],
                                    data)
    IN  IF r.err # ""
        THEN [status |-> r.err, pending |-> pending, queue |-> queue]
        ELSE IF ~r.done
        THEN [status |-> "ok", pending |-> <<r.m>>, queue |-> queue]
        ELSE IF r.extra = <<>>
        THEN [status |-> "ok", pending |-> <<>>, queue |-> Append(queue, Parsed(r.m))]
        ELSE IF pending = <<>> /\ r.extra = data
        THEN [status |-> "hang", pending |-> <<>>, queue |-> queue]
        ELSE backend_loop(<<>>, r.extra, Append(queue, Parsed(r.m)))

\* MessageProtocol._receive on the backend session: messageReceived on
\* every message of the queue, in order, until one raises.  target is the
\* current client; data, what the calls wrote to it, one write after the
\* other.
RECURSIVE _receive(_, _, _, _, _)
_receive(queue, drops, auth, status, target) ==
    IF queue = <<>>
    THEN [drops |-> drops, auth |-> auth, status |-> status, data |-> <<>>, err |-> ""]
    ELSE LET r == BackendFilter_filter(Head(queue), drops, auth, status)
             w == IF r.err # "" \/ r.out = <<>> THEN [write |-> NoWrite, err |-> r.err]
                  ELSE writePeer(target, r.out)
         IN  IF w.err # ""
             THEN [drops |-> r.drops, auth |-> r.auth, status |-> r.status,
                   data |-> <<>>, err |-> w.err]
             ELSE LET t == _receive(Tail(queue), r.drops, r.auth, r.status, target)
                  IN  [t EXCEPT !.data = w.write.data \o @]

\* What the backend sends in this specification: a DataRow without columns
\* and a ReadyForQuery(idle).
BackendWire ==
    << <<Ord("D"), 0, 0, 0, 6, 0, 0>>,
       <<Ord("Z"), 0, 0, 0, 5, Ord("I")>> >>

BackendStreams ==
    UNION {{Flatten(AsSeq([k \in 1..n |-> BackendWire[f[k]]])) :
                f \in [1..n -> 1..Len(BackendWire)]} : n \in 1..MaxFrames}

\* A live session without clients and the bytes the backend will send.
InitMux ==
    /\ InitSession
    /\ InitReactor
    /\ LiveSession
    /\ unread \in BackendStreams
    /\ fed = <<>>
    /\ _message = <<>>
    /\ delivered = <<>>
    /\ framing = "ok"

\* PostgresClientProtocol.dataReceived on a read of n bytes.  An exception,
\* of the framer or of a handler, ends the backend's connection.
backendDataReceived(n) ==
    LET l == backend_loop(_message, Upto(unread, n), <<>>)
        f == _receive(IF l.status = "ok" THEN l.queue ELSE <<>>, dropMessages,
                      authenticationResponse, transactionStatus,
                      currentClient(clientStack))
    IN  /\ ~dead
        /\ framing = "ok"
        /\ n <= Len(unread)
        /\ unread' = From(unread, n)
        /\ fed' = fed \o Upto(unread, n)
        /\ framing' = l.status
        /\ _message' = l.pending
        /\ delivered' = IF l.status = "ok" THEN delivered \o l.queue ELSE delivered
        /\ dropMessages' = f.drops
        /\ authenticationResponse' = f.auth
        /\ transactionStatus' = f.status
        /\ dead' = (l.status # "ok" \/ f.err # "")
        /\ toClient' = IF f.data = <<>> THEN NoWrite
                       ELSE [client |-> currentClient(clientStack), data |-> f.data]
        /\ toBackend' = <<>>
        /\ ev' = Event("backend", 0, 0)
        /\ UNCHANGED <<conn, clientStack, in_test, savepoints, delayed, clock, begun,
                       reactor, factory>>

\* The clients of this specification send SELECTs.
NextMux ==
    \/ \E c \in Clients : connectionMade(c) /\ UNCHANGED <<framer, reactor, factory>>
    \/ \E c \in Clients : connectionLost(c) /\ UNCHANGED <<reactor, factory>>
    \/ \E c \in Clients :
           FrontendMessageReceived(c, 3, clock) /\ UNCHANGED <<framer, reactor, factory>>
    \/ \E n \in 1..Len(unread) : backendDataReceived(n)

SpecMux == InitMux /\ [][NextMux]_vars

(***************************************************************************)
(* proxy.py: PGProxyServerFactory.  The factory dials the backend for the  *)
(* first client, hands the dial that is in flight to the clients that      *)
(* connect meanwhile, and forgets the session when its connection is lost. *)
(* The session variables describe the session dialed last; a client whose  *)
(* connection is "stale" is open and holds a session that was replaced.    *)
(***************************************************************************)
\* PGProxyServerFactory.postgresProtocol: gotProto stores the session,
\* postgresClientLost clears it; 0 is None.
factory_postgresProtocol == IF generation > 0 /\ ~dead THEN generation ELSE 0

\* A factory that has not dialed yet.
InitFactory ==
    /\ InitSession
    /\ NoStream
    /\ InitReactor
    /\ creatingPostgresProtocol = "none"
    /\ callbacks = <<>>
    /\ generation = 0

\* PGProxyProtocol.connectionMade: attachPostgresProtocol.  With a session
\* the client is attached at once; without one its reads are paused and
\* its attach and resume are chained to the dial, which makePostgresProtocol
\* starts unless creatingPostgresProtocol is set.  Callbacks added to a
\* Deferred that has failed never run.
attachPostgresProtocol(c) ==
    \/ /\ factory_postgresProtocol # 0
       /\ connectionMade(c)
       /\ UNCHANGED <<framer, reactor, factory>>
    \/ /\ factory_postgresProtocol = 0
       /\ conn[c] = "new"
       /\ \A d \in 1..(c - 1) : conn[d] # "new"
       /\ conn' = [conn EXCEPT ![c] = "paused"]
       /\ creatingPostgresProtocol' =
              IF creatingPostgresProtocol = "none" THEN "dialing"
              ELSE creatingPostgresProtocol
       /\ callbacks' = IF creatingPostgresProtocol = "failed" THEN callbacks
                       ELSE Append(callbacks, c)
       /\ ev' = Event(IF creatingPostgresProtocol = "none" THEN "dial" ELSE "wait", c, 0)
       /\ toBackend' = <<>>
       /\ toClient' = NoWrite
       /\ UNCHANGED <<clientStack, authenticationResponse, transactionStatus, in_test,
                      dead, dropMessages, savepoints, delayed, clock, begun,
                      generation, framer, reactor>>

\* A gotProto that hands out the session it had.
gotProto_reuse ==
    /\ creatingPostgresProtocol = "dialing"
    /\ generation < MaxSessions
    /\ generation' = generation + 1
    /\ creatingPostgresProtocol' = "none"
    /\ callbacks' = <<>>
    /\ clientStack' = clientStack \o callbacks
    /\ dead' = FALSE
    /\ conn' = [c \in Clients |->
                   IF conn[c] = "paused" /\ \E k \in 1..Len(callbacks) : callbacks[k] = c
                   THEN "open" ELSE conn[c]]
    /\ ev' = Event("gotProto", 0, 0)
    /\ toBackend' = <<>>
    /\ toClient' = NoWrite
    /\ UNCHANGED <<authenticationResponse, transactionStatus, in_test, dropMessages,
                   savepoints, delayed, clock, begun, framer, reactor>>

\* The dial connected: gotProto stores the new PostgresClientProtocol and
\* clears creatingPostgresProtocol, then the chained callbacks attach and
\* resume the waiting clients in the order they were added.
gotProto ==
    /\ creatingPostgresProtocol = "dialing"
    /\ generation < MaxSessions
    /\ generation' = generation + 1
    /\ creatingPostgresProtocol' = "none"
    /\ callbacks' = <<>>
    /\ clientStack' = callbacks
    /\ authenticationResponse' = <<>>
    /\ transactionStatus' = "None"
    /\ in_test' = FALSE
    /\ dead' = FALSE
    /\ dropMessages' = <<>>
    /\ conn' = [c \in Clients |->
                   IF conn[c] = "paused" /\ \E k \in 1..Len(callbacks) : callbacks[k] = c
                   THEN "open"
                   ELSE IF conn[c] \in {"open", "unattached"} THEN "stale"
                   ELSE conn[c]]
    /\ ev' = Event("gotProto", 0, 0)
    /\ toBackend' = <<>>
    /\ toClient' = NoWrite
    /\ UNCHANGED <<savepoints, delayed, clock, begun, framer, reactor>>

\* The dial failed: the Deferred fires its errback, gotProto and the
\* chained callbacks are skipped, creatingPostgresProtocol keeps it.
dialFailed ==
    /\ creatingPostgresProtocol = "dialing"
    /\ creatingPostgresProtocol' = "failed"
    /\ callbacks' = <<>>
    /\ ev' = Event("dialFailed", 0, 0)
    /\ toBackend' = <<>>
    /\ toClient' = NoWrite
    /\ UNCHANGED <<conn, clientStack, authenticationResponse, transactionStatus,
                   in_test, dead, dropMessages, savepoints, delayed, clock, begun,
                   generation, framer, reactor>>

\* PostgresClientProtocol.connectionLost: postgresClientLost, dead = True.
backendConnectionLost ==
    /\ generation > 0
    /\ ~dead
    /\ dead' = TRUE
    /\ ev' = Event("backendLost", 0, 0)
    /\ toBackend' = <<>>
    /\ toClient' = NoWrite
    /\ UNCHANGED <<conn, clientStack, authenticationResponse, transactionStatus,
                   in_test, dropMessages, savepoints, delayed, clock, begun,
                   framer, reactor, factory>>

\* PGProxyProtocol.connectionLost of a client that waits for the dial, which
\* has no session to detach from, or of one whose session is dead.
connectionLostWithoutSession(c) ==
    /\ \/ conn[c] \in {"paused", "stale"}
       \/ conn[c] \in {"open", "unattached"} /\ dead
    /\ conn' = [conn EXCEPT ![c] = "closed"]
    /\ clientStack' = IF conn[c] = "open" THEN detachClient(clientStack, c)
                      ELSE clientStack
    /\ savepoints' = [savepoints EXCEPT ![c] = <<>>]
    /\ begun' = [begun EXCEPT ![c] = 0]
    /\ ev' = Event("disconnect", c, 0)
    /\ toBackend' = <<>>
    /\ toClient' = NoWrite
    /\ UNCHANGED <<authenticationResponse, transactionStatus, in_test, dead,
                   dropMessages, delayed, clock, framer, reactor, factory>>

\* The messages of this specification: BEGIN TEST and BEGIN from the
\* clients; AuthenticationOk and ReadyForQuery(idle) from the backend.
FactoryFrontendInputs == {4, 6}

FactoryBackendInputs == {1, 5}

NextFactory ==
    \/ \E c \in Clients : attachPostgresProtocol(c)
    \/ gotProto
    \/ dialFailed
    \/ backendConnectionLost
    \/ \E c \in Clients : connectionLost(c) /\ UNCHANGED <<reactor, factory>>
    \/ \E c \in Clients : connectionLostWithoutSession(c)
    \/ \E c \in Clients, i \in FactoryFrontendInputs :
           FrontendMessageReceived(c, i, clock) /\ UNCHANGED <<framer, reactor, factory>>
    \/ \E i \in FactoryBackendInputs :
           /\ generation > 0
           /\ ServerSends(i)
           /\ BackendMessageReceived(i)
           /\ UNCHANGED <<framer, reactor, factory>>
    \/ runDelayedCall /\ UNCHANGED <<framer, reactor, factory>>

SpecFactory == InitFactory /\ [][NextFactory]_vars

\* C21: attach(client) while the backend session holds a partially parsed
\* message fails (the AssertionError of attachClient) and leaves
\* clientStack as it was; in every other state it appends the client to
\* clientStack.
C21_Step ==
    \A c \in Clients :
        (conn[c] = "new" /\ conn'[c] # "new")
            => IF _message # <<>>
               THEN /\ ev' = Event("AssertionError", c, 0)
                    /\ clientStack' = clientStack
                    /\ conn'[c] = "unattached"
               ELSE /\ ev' = Event("connect", c, 0)
                    /\ clientStack' = Append(clientStack, c)
                    /\ conn'[c] = "open"

C21_AttachWhileParsing == [][C21_Step]_vars

\* The second client connected between two reads that split a message: it
\* was refused and the first is alone on the stack.
C21_Witness ==
    /\ ev = Event("AssertionError", 2, 0)
    /\ _message # <<>>
    /\ clientStack = <<1>>
    /\ conn[2] = "unattached"

\* C22: when a client disconnects it is detached from its session: it is
\* removed from clientStack, where it was once, the others keep their
\* places, and the message the session was parsing is discarded, so that
\* parsingMessage is false right after the detach.
C22_Step ==
    \A c \in Clients :
        (conn[c] = "open" /\ conn'[c] = "closed")
            => /\ Cardinality({k \in 1..Len(clientStack) : clientStack[k] = c}) = 1
               /\ \A k \in 1..Len(clientStack') : clientStack'[k] # c
               /\ clientStack' = SelectSeq(clientStack, LAMBDA x : x # c)
               /\ _message' = <<>>
               /\ ~parsingMessage'

C22_DetachOnDisconnect == [][C22_Step]_vars

\* The second of two clients left while a message of the backend was half
\* read: the first is alone on the stack and no message is being parsed.
C22_Witness ==
    /\ ev = Event("disconnect", 2, 0)
    /\ clientStack = <<1>>
    /\ conn[2] = "closed"
    /\ fed # <<>>
    /\ unread # <<>>
    /\ serializeAll(delivered) # fed
    /\ _message = <<>>

\* The clients of a sequence, in the order of their connects (the clients
\* connect in the order of their numbers).
InConnectOrder(s) == \A j, k \in 1..Len(s) : j < k => s[j] < s[k]

\* What is said of a client that connects while the factory holds no
\* session, and of the completion of the dial.
C23_Connects(c) ==
    /\ conn'[c] = "paused"
    /\ creatingPostgresProtocol' = "dialing"
    /\ ev'.kind = "dial" <=> creatingPostgresProtocol = "none"
    /\ \E k \in 1..Len(callbacks') : callbacks'[k] = c

C23_Completes ==
    /\ factory_postgresProtocol = 0
    /\ factory_postgresProtocol' = generation'
    /\ clientStack' = callbacks
    /\ InConnectOrder(clientStack')
    /\ \A c \in Clients :
           conn[c] = "paused"
               => /\ conn'[c] = "open"
                  /\ \E k \in 1..Len(clientStack') : clientStack'[k] = c

\* C23: for the clients that connect while no backend session exists,
\* exactly one dial is in flight at a time; each of them has its reads
\* paused, and when the dial completes all of them are attached to the one
\* new session in the order of their connects and resumed; the factory
\* holds no session while it dials, so it never has two.
C23_Step ==
    /\ \A c \in Clients :
           (conn[c] = "new" /\ conn'[c] # "new" /\ factory_postgresProtocol = 0)
               => C23_Connects(c)
    /\ generation' # generation => C23_Completes

C23_OneDial ==
    /\ [](creatingPostgresProtocol = "dialing" => factory_postgresProtocol = 0)
    /\ [][C23_Step]_vars

\* The same with a dial that has not failed.
C23_StepWhileDialing ==
    /\ \A c \in Clients :
           (/\ conn[c] = "new" /\ conn'[c] # "new" /\ factory_postgresProtocol = 0
            /\ creatingPostgresProtocol # "failed")
               => C23_Connects(c)
    /\ generation' # generation => C23_Completes

C23_OneDialUnlessFailed ==
    /\ [](creatingPostgresProtocol = "dialing" => factory_postgresProtocol = 0)
    /\ [][C23_StepWhileDialing]_vars

\* The second client connected after the dial of the first had failed: both
\* wait, no dial is in flight, nothing will attach them.
C23_Witness ==
    /\ ev = Event("wait", 2, 0)
    /\ creatingPostgresProtocol = "failed"
    /\ conn = [c \in Clients |-> IF c <= 2 THEN "paused" ELSE "new"]
    /\ callbacks = <<>>
    /\ generation = 0

\* C24: when the connection of the backend session is lost the session is
\* dead for good and the factory's reference is cleared; the next client
\* that connects starts a new dial, and the session that dial brings is a
\* new one, with an empty authenticationResponse, an empty drop-list and
\* in_test false, to which the client is attached.
C24_Step ==
    /\ ev'.kind = "backendLost"
           => dead' /\ factory_postgresProtocol # 0 /\ factory_postgresProtocol' = 0
    /\ (dead /\ ~dead') => generation' = generation + 1
    /\ \A c \in Clients :
           (/\ conn[c] = "new" /\ conn'[c] # "new"
            /\ generation > 0 /\ dead /\ creatingPostgresProtocol = "none")
               => /\ ev' = Event("dial", c, 0)
                  /\ creatingPostgresProtocol' = "dialing"
                  /\ callbacks' = <<c>>
    /\ generation' # generation
           => /\ authenticationResponse' = <<>>
              /\ dropMessages' = <<>>
              /\ ~in_test'
              /\ ~dead'
              /\ transactionStatus' = "None"
              /\ clientStack' = callbacks
              /\ \A k \in 1..Len(callbacks) :
                     conn[callbacks[k]] = "paused" => conn'[callbacks[k]] = "open"

C24_FreshSessionAfterLoss == [][C24_Step]_vars

\* The second session has just been stored: the second client, which
\* dialed it, is its only client, and the first still holds the old one.
C24_Witness ==
    /\ ev.kind = "gotProto"
    /\ generation = 2
    /\ clientStack = <<2>>
    /\ conn = [c \in Clients |-> IF c = 1 THEN "stale" ELSE IF c = 2 THEN "open" ELSE "new"]
    /\ authenticationResponse = <<>>
    /\ ~in_test

\* C25: when the connection of the backend session is lost every client
\* attached to it is closed: no client stays open with a dead session.
C25_NoClientOnDeadSession ==
    \A c \in Clients : conn[c] # "stale" /\ ~(conn[c] = "open" /\ dead)

\* The session of the first client has just lost its connection; the
\* client is open and on its stack.
C25_Witness ==
    /\ ev.kind = "backendLost"
    /\ dead
    /\ clientStack = <<1>>
    /\ conn[1] = "open"

\* ---------------------------------------------------------------------
\* A verdict of several messages, written to the peer.

\* The longest list of substitute messages a translation is given here.
MaxVerdict == 3

\* The messages the lists are made of.
VerdictMsgs == <<sync, terminate, query(q_begin), query(q_select)>>

\* The lists of substitute messages, each message named by its place in
\* VerdictMsgs.
VerdictLists == UNION {[1..n -> 1..Len(VerdictMsgs)] : n \in 0..MaxVerdict}

\* FilteringProtocol.messageReceived for a message whose filter answers
\* translate(*messages): an empty verdict writes nothing, any other goes to
\* writePeer, which joins the serialized messages and writes them once to
\* the transport of the peer (peer 0: no peer, the join raises).
messageReceived_translate(peer, ms) ==
    LET messages == translate(AsSeq([k \in 1..Len(ms) |-> VerdictMsgs[ms[k]]]))
        w == IF messages = <<>> THEN [write |-> NoWrite, err |-> ""]
             ELSE writePeer(peer, messages)
    IN  /\ toClient' = w.write
        /\ toBackend' = <<>>
        /\ ev' = Event(IF w.err = "" THEN "verdict" ELSE w.err, peer, ms)
        /\ UNCHANGED <<conn, clientStack, authenticationResponse,
                       transactionStatus, in_test, dead, dropMessages,
                       savepoints, delayed, clock, begun>>

NextVerdict ==
    \E peer \in 0..MaxClients : \E ms \in VerdictLists :
        messageReceived_translate(peer, ms) /\ UNCHANGED <<framer, reactor, factory>>

\* The session before its first verdict; the event's list is empty.
InitVerdict ==
    /\ conn = [c \in Clients |-> "new"]
    /\ clientStack = <<>>
    /\ authenticationResponse = <<>>
    /\ transactionStatus = "None"
    /\ in_test = FALSE
    /\ dead = FALSE
    /\ dropMessages = <<>>
    /\ savepoints = [c \in Clients |-> <<>>]
    /\ delayed = <<>>
    /\ clock = 0
    /\ begun = [c \in Clients |-> 0]
    /\ ev = Event("init", 0, <<>>)
    /\ toBackend = <<>>
    /\ toClient = NoWrite
    /\ NoStream
    /\ InitReactor
    /\ LiveSession

SpecVerdict == InitVerdict /\ [][NextVerdict]_vars

C26_Step ==
    (ev'.kind = "verdict" /\ Len(ev'.msg) > 0) =>
        LET ms == ev'.msg
            r == dataReceived_loop(<<>>, toClient'.data, <<>>)
        IN  /\ toClient'.client = ev'.client
            /\ r.status = "ok"
            /\ r.pending = <<>>
            /\ Len(r.queue) = Len(ms)
            /\ \A k \in 1..Len(ms) :
                   /\ r.queue[k].type = VerdictMsgs[ms[k]].type
                   /\ serialize(r.queue[k]) = serialize(VerdictMsgs[ms[k]])

\* C26: a verdict is written to the peer's transport in one write of one
\* buffer, which holds the serialized messages of the verdict in the order
\* given and nothing else: framing the buffer again gives those messages,
\* one after the other, with no byte left over.
C26_VerdictOneBuffer == [][C26_Step]_vars

C26_Witness ==
    /\ ev.kind = "verdict"
    /\ ev.client = 2
    /\ ev.msg = <<3, 1, 4>>
    /\ toClient = [client |-> 2,
                   data |-> serialize(query(q_begin)) \o serialize(sync)
                            \o serialize(query(q_select))]

(***************************************************************************)
(* messages.py: Message.consume and serialize on one well-formed message   *)
(* followed by other bytes, given in one call or in several.               *)
(***************************************************************************)
\* The longest run of bytes that follows the message.
MaxTrail == 2

\* Well-formed messages of the two classes: those the module's constructors
\* build, and a Close, an SSLRequest, a CancelRequest and a DataRow as
\* they are on the wire.
CodecMsgs ==
    << [cls |-> "FrontendMessage", m |-> query(B(<<"N">>))],
       [cls |-> "FrontendMessage", m |-> sync],
       [cls |-> "FrontendMessage", m |-> terminate],
       [cls |-> "FrontendMessage", m |-> startup(B(<<"u">>))],
       [cls |-> "FrontendMessage", m |-> consume(<<Ord("C"), 0, 0, 0, 6, Ord("S"), 0>>)],
       [cls |-> "FrontendMessage", m |-> consume(<<0, 0, 0, 8, 128, 135, 113, 3>>)],
       [cls |-> "FrontendMessage",
        m |-> consume(<<0, 0, 0, 16, 128, 135, 113, 2, 0, 0, 0, 7, 0, 0, 0, 9>>)],
       [cls |-> "BackendMessage", m |-> authenticationOk],
       [cls |-> "BackendMessage", m |-> readyForQuery("idle")],
       [cls |-> "BackendMessage", m |-> parameterStatus(B(<<"a">>), B(<<"b">>))],
       [cls |-> "BackendMessage", m |-> commandComplete(B(<<"B">>))],
       [cls |-> "BackendMessage", m |-> errorResponse(<< <<Ord("S"), B(<<"x">>)>> >>)],
       [cls |-> "BackendMessage", m |-> errorResponse(<<>>)],
       [cls |-> "BackendMessage", m |-> consume(<<Ord("D"), 0, 0, 0, 6, 0, 0>>)] >>

\* The bytes that follow the message: nothing, zero bytes, letters.
Trailing == UNION {[1..n -> {0, Ord("f")}] : n \in 0..MaxTrail}

\* consume of the class cls.
consume_of(cls, m, data) ==
    IF cls = "FrontendMessage" THEN Message_consume(m, data)
    ELSE BackendMessage_consume(m, data)

\* A new message of one of the classes, and the bytes it will be given:
\* the wire bytes of message k and a tail.
InitCodec ==
    /\ conn = [c \in Clients |-> "new"]
    /\ clientStack = <<>>
    /\ authenticationResponse = <<>>
    /\ transactionStatus = "None"
    /\ in_test = FALSE
    /\ dead = FALSE
    /\ dropMessages = <<>>
    /\ savepoints = [c \in Clients |-> <<>>]
    /\ delayed = <<>>
    /\ clock = 0
    /\ begun = [c \in Clients |-> 0]
    /\ toBackend = <<>>
    /\ toClient = NoWrite
    /\ InitReactor
    /\ LiveSession
    /\ \E k \in 1..Len(CodecMsgs) : \E t \in Trailing :
           /\ ev = Event("init", k, <<>>)
           /\ unread = serialize(CodecMsgs[k].m) \o t
    /\ fed = <<>>
    /\ _message = <<NewMessage>>
    /\ delivered = <<>>
    /\ framing = "ok"

\* m.consume(data) with the next n bytes, on the message that is not yet
\* done: the event records done and the leftover returned; a message that
\* is done is kept as the parser left it.
consumeCall(n) ==
    LET r == consume_of(CodecMsgs[ev.client].cls, _message[1], Upto(unread, n))
    IN  /\ framing = "ok"
        /\ delivered = <<>>
        /\ n <= Len(unread)
        /\ unread' = From(unread, n)
        /\ fed' = fed \o Upto(unread, n)
        /\ framing' = IF r.err = "" THEN "ok" ELSE r.err
        /\ _message' = <<r.m>>
        /\ delivered' = IF r.done /\ r.err = "" THEN <<Parsed(r.m)>> ELSE <<>>
        /\ ev' = Event(IF r.err # "" THEN r.err ELSE IF r.done THEN "done" ELSE "more",
                       ev.client, r.extra)
        /\ UNCHANGED <<conn, clientStack, authenticationResponse, transactionStatus,
                       in_test, dead, dropMessages, savepoints, delayed, clock,
                       begun, toBackend, toClient, reactor, factory>>

NextCodec == \E n \in 1..Len(unread) : consumeCall(n)

SpecCodec == InitCodec /\ [][NextCodec]_vars

\* Parsing the bytes b as a new message of the class cls, in one call.
Reparse(cls, b) == consume_of(cls, NewMessage, b)

C27_Step ==
    LET c == CodecMsgs[ev.client]
        b == serialize(c.m)
    IN  /\ ev'.kind \in {"more", "done"}
        /\ (ev'.kind = "more") <=> (Len(fed') < Len(b))
        /\ ev'.kind = "done" =>
               /\ ev'.msg = From(fed', Len(b))
               /\ (unread' = <<>> => b \o ev'.msg = fed \o unread)
               /\ delivered' = <<c.m>>
               /\ serialize(delivered'[1]) = b
               /\ LET r == Reparse(c.cls, serialize(delivered'[1]))
                  IN  r.done /\ r.err = "" /\ r.extra = <<>>
                      /\ Parsed(r.m) = delivered'[1]

\* C27: a well-formed message b followed by any bytes t, given to consume
\* in one call or in several: consume reports not done until b is whole
\* and done with the call that completes it, the leftover being exactly
\* the bytes given behind b (all of t when the call brought the rest);
\* serialize of the message is b, and parsing serialize again gives a
\* message equal to it in type, length, buffer and data, for the messages
\* of the constructors as for the others.
C27_ConsumeSerializeRoundTrip == [][C27_Step]_vars

C27_Witness ==
    /\ ev = Event("done", 12, <<Ord("f"), 0>>)
    /\ Len(fed) > Len(unread) + 6
    /\ unread = <<>>
    /\ _message[1].buf = serialize(errorResponse(<< <<Ord("S"), B(<<"x">>)>> >>))

\* ---------------------------------------------------------------------
\* The Startup of a client that connects before the handshake is complete.

\* The step writes a Startup to the backend.
C28_StartupWritten(e, written) ==
    e.kind = "frontend" /\ e.msg = 1 /\ written = serialize(FrontendMsgs[1])

C28_Step ==
    ~(/\ C28_StartupWritten(ev, toBackend)
      /\ C28_StartupWritten(ev', toBackend')
      /\ ev'.client # ev.client)

\* C28: at most one Startup is ever written to the backend of a session;
\* in particular the step after the one that wrote a client's Startup does
\* not write the Startup of another client, whose Startup is dropped and
\* answered from the cached handshake.
C28_OneStartupWritten == [][C28_Step]_vars

C28_Witness ==
    /\ C28_StartupWritten(ev, toBackend)
    /\ ev.client = 2
    /\ clientStack = <<1, 2>>
    /\ authenticationResponse = <<authenticationOk>>
    /\ delayed = <<>>

\* C29: no interleaving of client connects, client messages and backend
\* reads attaches a client while the backend session's framer holds a
\* partially parsed message: the AssertionError of attachClient is never
\* raised.
C29_NoAttachWhileParsing == ev.kind # "AssertionError"

\* Client 1 is attached; a read brought the first
\* three bytes of the reply; client 2 connected before the next read.
C29_Witness ==
    /\ ev.kind = "AssertionError"
    /\ ev.client = 2
    /\ conn[1] = "open"
    /\ fed = <<Ord("D"), 0, 0>>
    /\ parsingMessage
    /\ unread # <<>>

\* ---------------------------------------------------------------------
\* A client disconnects while a message for another client is half read.

\* Client c disconnects while another client is the current one, the one
\* the backend's messages go to.
C30_OtherDisconnects(c) ==
    /\ conn[c] = "open"
    /\ conn'[c] = "closed"
    /\ currentClient(clientStack) # c
    /\ currentClient(clientStack') = currentClient(clientStack)

C30_Step ==
    \A c \in Clients :
        C30_OtherDisconnects(c)
            => /\ _message' = _message
               /\ serializeAll(delivered') \o
                      (IF _message' = <<>> THEN <<>> ELSE _message'[1].buf) = fed'

\* C30: the disconnect of a client leaves the messages of the backend that
\* go to the remaining current client as they are: the bytes received so
\* far are all in delivered messages or in the message being parsed, also
\* when that message is only partly received, so that it is delivered
\* complete and unchanged when its rest arrives.
C30_DisconnectLeavesOthers == [][C30_Step]_vars

\* Client 2 left when a part of the first message, which goes to client 1,
\* had been read; the rest of it was then read as the start of a message,
\* and the session ended on it with client 1 still attached and nothing
\* delivered.
C30_Witness ==
    /\ clientStack = <<1>>
    /\ conn[1] = "open"
    /\ conn[2] = "closed"
    /\ framing = "ValueError"
    /\ dead
    /\ delivered = <<>>
    /\ Len(fed) >= 7

\* ---------------------------------------------------------------------
\* A dial that fails.

\* C31: when the dial fails, the marker of the dial in flight is released
\* and no client is attached; a client that connects afterwards, with no
\* session and no dial in flight, starts a new dial and waits for it, so
\* that it is attached when that dial succeeds.
C31_Step ==
    /\ ev'.kind = "dialFailed"
           => /\ creatingPostgresProtocol' = "none"
              /\ clientStack' = clientStack
    /\ \A c \in Clients :
           (/\ conn[c] = "new" /\ conn'[c] = "paused"
            /\ creatingPostgresProtocol # "dialing")
               => /\ ev' = Event("dial", c, 0)
                  /\ creatingPostgresProtocol' = "dialing"
                  /\ \E k \in 1..Len(callbacks') : callbacks'[k] = c

C31_FailedDialReleased == [][C31_Step]_vars

\* The dial of client 1 failed and client 1 went away; client 2 connected
\* afterwards: its reads are paused, no dial is in flight and none was
\* started, and nothing will attach it.
C31_Witness ==
    /\ ev = Event("wait", 2, 0)
    /\ conn[1] = "closed"
    /\ conn[2] = "paused"
    /\ creatingPostgresProtocol = "failed"
    /\ callbacks = <<>>
    /\ factory_postgresProtocol = 0

\* ---------------------------------------------------------------------
\* A message of the backend that arrives when no client is attached.

\* C32: a backend message whose verdict has messages to write, arriving
\* while clientStack is empty, raises no error: the session stays alive,
\* nothing is written, and the authentication response, the transaction
\* status and the drop-list are as the filter left them.
C32_Step ==
    (ev'.kind = "backend" /\ clientStack = <<>>)
        => LET r == BackendFilter_filter(BackendMsgs[ev'.msg], dropMessages,
                                         authenticationResponse, transactionStatus)
           IN  r.err = "" =>
                   /\ ~dead'
                   /\ toClient' = NoWrite
                   /\ authenticationResponse' = r.auth
                   /\ transactionStatus' = r.status
                   /\ dropMessages' = r.drops

C32_NoPeerWriteDropped == [][C32_Step]_vars

\* The AuthenticationOk arrived before any client was attached: it was
\* saved, and the write of it ended the session.
C32_Witness ==
    /\ ev = Event("backend", 0, 5)
    /\ clientStack = <<>>
    /\ \A c \in Clients : conn[c] = "new"
    /\ authenticationResponse = <<authenticationOk>>
    /\ toClient = NoWrite
    /\ dead

(***************************************************************************)
(* The backend answers the queries it was written, one after the other:    *)
(* a CommandComplete or an ErrorResponse, then a ReadyForQuery.  sent      *)
(* holds the queries that are not yet answered in full, each with whether  *)
(* it is a savepoint command the proxy put in the place of the client's    *)
(* query, and how far its reply has come.                                  *)
(***************************************************************************)
\* The query written is one of translateSavepoint or match_begin: SAVEPOINT,
\* RELEASE SAVEPOINT or ROLLBACK TO SAVEPOINT.
InsertedSavepoint(written) ==
    LET sql == From(written, 5)
    IN  \/ StartsWith(sql, fmt_savepoint)
        \/ StartsWith(sql, fmt_release)
        \/ StartsWith(sql, fmt_rollback_to)

\* The messages of this specification: SELECT, BEGIN TEST, ROLLBACK TEST,
\* BEGIN and COMMIT from the clients; ReadyForQuery(idle), ReadyForQuery
\* (failed), CommandComplete and ErrorResponse from the backend.
RepliesFrontendInputs == {3, 4, 5, 6, 8}

RepliesBackendInputs == {1, 2, 3, 12}

\* PGProxyProtocol.messageReceived; what it writes is a query the backend
\* will answer.  A client sends its next query when the one before is
\* answered.
queryRead(c, i) ==
    /\ Polling
    /\ nseq < MaxSeq
    /\ \A k \in 1..Len(sent) : sent[k].client # c
    /\ FrontendMessageReceived(c, i, clock)
    /\ nseq' = nseq + 1
    /\ sent' = IF toBackend' # <<>>
               THEN Append(sent, [client |-> c, seq |-> nseq + 1,
                                  inserted |-> InsertedSavepoint(toBackend'),
                                  stage |-> "result"])
               ELSE sent
    /\ UNCHANGED <<phase, spoofSeq, framer, factory>>

\* PostgresClientProtocol.messageReceived on the next message of the reply
\* to the oldest query: its result, then its ReadyForQuery, which is
\* failed after an ErrorResponse.
backendReply(i) ==
    /\ Polling
    /\ sent # <<>>
    /\ IF Head(sent).stage = "result" THEN BackendMsgs[i].type \in {"C", "E"}
       ELSE i = (IF Head(sent).stage = "error" THEN 2 ELSE 1)
    /\ BackendMessageReceived(i)
    /\ sent' = IF BackendMsgs[i].type = "Z" THEN Tail(sent)
               ELSE <<[Head(sent) EXCEPT
                          !.stage = IF BackendMsgs[i].type = "E" THEN "error"
                                    ELSE "ready"]>> \o Tail(sent)
    /\ UNCHANGED <<phase, nseq, spoofSeq, framer, factory>>

NextReplies ==
    \/ \E c \in Clients : Polling /\ connectionMade(c) /\ UNCHANGED <<framer, reactor, factory>>
    \/ \E c \in Clients, i \in RepliesFrontendInputs : queryRead(c, i)
    \/ \E i \in RepliesBackendInputs : backendReply(i)
    \/ runDelayedCall /\ UNCHANGED <<framer, reactor, factory>>

SpecReplies == Init /\ [][NextReplies]_vars

C33_Step ==
    (ev'.kind = "backend" /\ clientStack # <<>>)
        => IF Head(sent).inserted /\ BackendMsgs[ev'.msg].type \in {"C", "Z"}
           THEN toClient' = NoWrite
           ELSE PassesThrough

\* C33: the backend messages suppressed by the drop-list are the
\* CommandComplete and the ReadyForQuery of the reply to a SAVEPOINT, RELEASE
\* SAVEPOINT or ROLLBACK TO SAVEPOINT that the proxy inserted; every message
\* of the reply to any other query passes through to the client, also after
\* the backend has answered an inserted command with an ErrorResponse.
C33_OnlyInsertedRepliesSuppressed == [][C33_Step]_vars

\* BEGIN TEST, BEGIN and ROLLBACK TEST were sent; the backend answered the
\* inserted SAVEPOINT with an ErrorResponse, and the CommandComplete of the
\* reply to the ROLLBACK that ends the test was suppressed.
C33_Witness ==
    /\ ev = Event("backend", 0, 3)
    /\ nseq = 3
    /\ ~in_test
    /\ sent # <<>>
    /\ ~Head(sent).inserted
    /\ Head(sent).stage = "ready"
    /\ toClient = NoWrite
    /\ dropMessages = <<"Z">>
    /\ ~dead

\* ---------------------------------------------------------------------
\* The names of the savepoints.

\* C34: the savepoint name generated for an in-test BEGIN differs from
\* every name that is on the savepoint stack of any client of the session,
\* whatever the clock readings of the BEGINs.
C34_Step ==
    \A c \in Clients :
        Len(savepoints'[c]) = Len(savepoints[c]) + 1
            => \A d \in Clients : \A k \in 1..Len(savepoints[d]) :
                   savepoints[d][k] # savepoints'[c][Len(savepoints'[c])]

C34_SavepointNamesUnique == [][C34_Step]_vars

\* Two clients sent BEGIN at the same clock reading: their stacks hold the
\* same name.
C34_Witness ==
    /\ ev = Event("frontend", 2, 6)
    /\ in_test
    /\ savepoints[1] = <<savepoint_name(clock)>>
    /\ savepoints[2] = <<savepoint_name(clock)>>

(***************************************************************************)
(* The savepoints of the backend session.  The clients share one backend   *)
(* transaction: sent is the log of the transaction and savepoint commands  *)
(* written to the backend, and the savepoints that exist on the backend    *)
(* follow from it as PostgreSQL defines them.                              *)
(***************************************************************************)
\* The most commands the log takes.
MaxLog == 5

\* s without its last byte (the zero that ends the string of a query).
Chop(s) == SubSeq(s, 1, Len(s) - 1)

\* The command a written query is, and the name it gives.
Command(written) ==
    LET sql == Chop(From(written, 5))
    IN  IF StartsWith(sql, fmt_savepoint)
        THEN [cmd |-> "SAVEPOINT", name |-> From(sql, Len(fmt_savepoint))]
        ELSE IF StartsWith(sql, fmt_release)
        THEN [cmd |-> "RELEASE", name |-> From(sql, Len(fmt_release))]
        ELSE IF StartsWith(sql, fmt_rollback_to)
        THEN [cmd |-> "ROLLBACK TO", name |-> From(sql, Len(fmt_rollback_to))]
        ELSE IF StartsWith(sql, stmt_BEGIN)
        THEN [cmd |-> "BEGIN", name |-> <<>>]
        ELSE IF StartsWith(sql, stmt_ROLLBACK)
        THEN [cmd |-> "ROLLBACK", name |-> <<>>]
        ELSE [cmd |-> "other", name |-> <<>>]

\* The place of the newest savepoint of the name n in live, 0 if none.
Newest(live, n) ==
    IF \E k \in 1..Len(live) : live[k] = n
    THEN CHOOSE k \in 1..Len(live) :
             live[k] = n /\ \A j \in (k + 1)..Len(live) : live[j] # n
    ELSE 0

\* The savepoints on the backend after the commands of log, oldest first:
\* SAVEPOINT adds one; RELEASE destroys the newest of the name and all that
\* were made after it; ROLLBACK TO destroys those made after it and keeps
\* it; the ROLLBACK of the transaction leaves none; a BEGIN makes none and,
\* inside a transaction, changes nothing; a command that names no savepoint
\* fails and changes nothing.
RECURSIVE Live(_)
Live(log) ==
    IF log = <<>> THEN <<>>
    ELSE LET before == Live(Chop(log))
             c == log[Len(log)]
             k == Newest(before, c.name)
         IN  IF c.cmd = "SAVEPOINT" THEN Append(before, c.name)
             ELSE IF c.cmd = "RELEASE" THEN (IF k = 0 THEN before ELSE Upto(before, k - 1))
             ELSE IF c.cmd = "ROLLBACK TO" THEN (IF k = 0 THEN before ELSE Upto(before, k))
             ELSE IF c.cmd = "ROLLBACK" THEN <<>>
             ELSE before

\* The messages of this specification: BEGIN TEST, BEGIN, COMMIT and
\* ROLLBACK from the clients; CommandComplete and ReadyForQuery
\* (transaction) from the backend.
SavepointFrontendInputs == {4, 6, 8, 11}

SavepointBackendInputs == {3, 4}

\* PGProxyProtocol.messageReceived at a clock reading t; the command it
\* writes reaches the backend.
commandRead(c, i, t) ==
    /\ Polling
    /\ Len(sent) < MaxLog
    /\ FrontendMessageReceived(c, i, t)
    /\ sent' = IF toBackend' # <<>> THEN Append(sent, Command(toBackend')) ELSE sent
    /\ UNCHANGED <<phase, nseq, spoofSeq, framer, factory>>

NextSavepoints ==
    \/ \E c \in Clients : Polling /\ connectionMade(c) /\ UNCHANGED <<framer, reactor, factory>>
    \/ \E c \in Clients, i \in SavepointFrontendInputs, t \in clock..MaxClock :
           commandRead(c, i, t)
    \/ \E i \in SavepointBackendInputs :
           Polling /\ BackendMessageReceived(i) /\ UNCHANGED <<framer, reactor, factory>>
    \/ runDelayedCall /\ UNCHANGED <<framer, reactor, factory>>

SpecSavepoints == Init /\ [][NextSavepoints]_vars

C35_Step ==
    (ev'.kind = "frontend" /\ Len(sent') = Len(sent) + 1)
        => LET c == sent'[Len(sent')]
           IN  c.cmd \in {"RELEASE", "ROLLBACK TO"} => Newest(Live(sent), c.name) # 0

\* C35: every RELEASE SAVEPOINT n or ROLLBACK TO SAVEPOINT n written to the
\* backend names a savepoint that an earlier SAVEPOINT n written to the
\* same session created and that still exists: it was not released since,
\* neither by name nor with a savepoint that encloses it.
C35_NamesLiveSavepoint == [][C35_Step]_vars

\* In a test client 1 and then client 2 sent BEGIN, at different clock
\* readings, and client 1 sent COMMIT, whose RELEASE took the savepoint of
\* client 2 with it; the COMMIT of client 2 wrote a RELEASE of a savepoint
\* that is gone.
C35_Witness ==
    /\ ev = Event("frontend", 2, 8)
    /\ Len(sent) = 5
    /\ sent[1].cmd = "BEGIN"
    /\ sent[2] = [cmd |-> "SAVEPOINT", name |-> savepoint_name(0)]
    /\ sent[3] = [cmd |-> "SAVEPOINT", name |-> savepoint_name(1)]
    /\ sent[4] = [cmd |-> "RELEASE", name |-> savepoint_name(0)]
    /\ sent[5] = [cmd |-> "RELEASE", name |-> savepoint_name(1)]
    /\ Live(Chop(sent)) = <<>>

\* ---------------------------------------------------------------------
\* The shape of the drop-list.

\* pairs is C, Z, C, Z, ...
C36_Pairs(pairs) ==
    /\ Len(pairs) % 2 = 0
    /\ \A k \in 1..Len(pairs) : pairs[k] = (IF k % 2 = 1 THEN "C" ELSE "Z")

C36_Shape ==
    C36_Pairs(IF dropMessages # <<>> /\ Head(dropMessages) = "Z"
              THEN Tail(dropMessages) ELSE dropMessages)

C36_Step ==
    \/ dropMessages' = dropMessages
    \/ ev'.kind = "frontend" /\ dropMessages' = dropMessages \o <<"C", "Z">>
    \/ /\ ev'.kind = "backend"
       /\ dropMessages # <<>>
       /\ BackendMsgs[ev'.msg].type = Head(dropMessages)
       /\ dropMessages' = Tail(dropMessages)

\* C36: the drop-list is at all times an optional single Z followed by
\* zero or more pairs C, Z; a step leaves it alone, appends C, Z to it (a
\* frontend message), or removes its head (a backend message of the type
\* of the head).
C36_DropListShape == []C36_Shape /\ [][C36_Step]_vars

\* A client has two savepoints; the backend's CommandComplete was
\* suppressed as the head of the list, and a single Z is left.
C36_Witness ==
    /\ ev = Event("backend", 0, 3)
    /\ toClient = NoWrite
    /\ dropMessages = <<"Z">>
    /\ \E c \in Clients : Len(savepoints[c]) = 2

\* ---------------------------------------------------------------------
\* authenticationComplete, once true.

\* C37: once authenticationComplete is true for a session it stays true,
\* whatever the backend sends next, a ParameterStatus of any name included,
\* and the last element of authenticationResponse stays the Z that was
\* captured.
C37_Step ==
    authenticationComplete(authenticationResponse)
        => /\ authenticationComplete(authenticationResponse')
           /\ authenticationResponse'[Len(authenticationResponse')] =
                  authenticationResponse[Len(authenticationResponse)]

C37_CompleteStaysComplete == [][C37_Step]_vars

\* The handshake was R, Z; a ParameterStatus with an empty name arrived:
\* the list is S, S and authenticationComplete is false.
C37_Witness ==
    /\ ev = Event("backend", 0, 11)
    /\ authenticationResponse = <<BackendMsgs[11], BackendMsgs[11]>>
    /\ ~authenticationComplete(authenticationResponse)
    /\ ~dead

(***************************************************************************)
(* C38: clientStack holds the clients that are connected and attached to   *)
(* the session, each once, and no client that has disconnected.            *)
(***************************************************************************)
\* The number of entries of clientStack that are client c.
C38_Count(c) == Cardinality({k \in 1..Len(clientStack) : clientStack[k] = c})

\* C38: after any sequence of connects, messages and disconnects, every
\* client that is connected and attached to the session is on clientStack
\* exactly once, and no other client (disconnected, waiting for the dial,
\* refused by attachClient, or left on a replaced session) is on it.
C38_StackIsAttachedClients ==
    \A c \in Clients : C38_Count(c) = IF conn[c] = "open" THEN 1 ELSE 0

\* A client that disconnected while it waited for the dial was attached by
\* the callback chained to it: it is on clientStack of the new session,
\* which the other client has joined too.
C38_Witness ==
    /\ ev.kind = "connect"
    /\ conn[1] = "closed"
    /\ conn[2] = "open"
    /\ clientStack = <<1, 2>>
    /\ factory_postgresProtocol # 0

(***************************************************************************)
(* C39: a spoofed reply goes to the transport of the client whose message  *)
(* requested it, with the bytes computed at the request, whatever happens  *)
(* between the handler's return and the reactor's call.                    *)
(***************************************************************************)
\* The messages of this specification: Startup and SELECT from the clients;
\* ReadyForQuery(idle), AuthenticationOk and ParameterStatus a=1, a=2 from
\* the backend.
SpoofFrontendInputs == {1, 3}

SpoofBackendInputs == {1, 5, 8, 10}

\* The reactor of SpecReactor with the handshake: in one iteration a
\* Startup is answered from the cache, other clients are accepted or
\* activated, and the backend's ParameterStatus rewrites the cache, before
\* runUntilCurrent runs the write.
NextSpoof ==
    \/ \E c \in Clients : accept(c)
    \/ \E c \in Clients, i \in SpoofFrontendInputs : clientRead(c, i)
    \/ \E i \in SpoofBackendInputs : ServerSends(i) /\ backendRead(i)
    \/ runUntilCurrent
    \/ delayedCall
    \/ doIteration

SpecSpoof == Init /\ [][NextSpoof]_vars

\* C39: a spoof requested while handling a message of client C is
\* registered for C with the bytes of the messages as they are then (for a
\* Startup, the cached handshake of that moment); no later attach,
\* activation or backend message changes a registered write; and the call
\* writes exactly what was registered to C, whoever is the current client,
\* and nothing to the backend.
C39_Step ==
    /\ ev'.kind = "frontend"
           => /\ SubSeq(delayed', 1, Len(delayed)) = delayed
              /\ \A k \in (Len(delayed) + 1)..Len(delayed') :
                     delayed'[k].client = ev'.client
              /\ (FrontendMsgs[ev'.msg].type = "Startup"
                  /\ authenticationComplete(authenticationResponse))
                     => delayed' = Append(delayed,
                                          [client |-> ev'.client,
                                           data |-> serializeAll(authenticationResponse)])
    /\ ev'.kind \notin {"frontend", "spoof"} => delayed' = delayed
    /\ ev'.kind = "spoof"
           => /\ delayed # <<>>
              /\ toClient' = Head(delayed)
              /\ delayed' = Tail(delayed)
              /\ toBackend' = <<>>

C39_SpoofToRequester == [][C39_Step]_vars

\* The cached handshake is written to the client that sent the Startup
\* while another client is the current one, with the bytes the cache had at
\* the request: the backend has rewritten a setting since.
C39_Witness ==
    /\ ev.kind = "spoof"
    /\ toClient.client = ev.client
    /\ currentClient(clientStack) # toClient.client
    /\ authenticationComplete(authenticationResponse)
    /\ toClient.data # serializeAll(authenticationResponse)
    /\ conn = <<"open", "open">>

(***************************************************************************)
(* fifobuffer.py: the read position of a message's FIFOBuffer, on messages *)
(* that are well formed and on messages that declare a length shorter      *)
(* than their header or than what their parse_<type> reads.                *)
(***************************************************************************)
\* The packets, as they are on the wire.  Well formed: a Sync, a query, a
\* Close, a Startup, a CancelRequest; an AuthenticationOk, a ReadyForQuery
\* and a ParameterStatus.  Too short for the length they declare: a
\* Terminate that declares 0, a Close that declares 4, a Startup that
\* declares 4; a ReadyForQuery and an Authentication that declare 4, a
\* DataRow that declares 2.
BufferMsgs ==
    << [cls |-> "FrontendMessage", bytes |-> <<Ord("S"), 0, 0, 0, 4>>],
       [cls |-> "FrontendMessage", bytes |-> <<Ord("Q"), 0, 0, 0, 5, Ord("N")>>],
       [cls |-> "FrontendMessage", bytes |-> <<Ord("C"), 0, 0, 0, 6, Ord("S"), 0>>],
       [cls |-> "FrontendMessage", bytes |-> <<0, 0, 0, 9, 0, 3, 0, 0, 0>>],
       [cls |-> "FrontendMessage",
        bytes |-> <<0, 0, 0, 16, 128, 135, 113, 2, 0, 0, 0, 7, 0, 0, 0, 9>>],
       [cls |-> "BackendMessage", bytes |-> <<Ord("R"), 0, 0, 0, 8, 0, 0, 0, 0>>],
       [cls |-> "BackendMessage", bytes |-> <<Ord("Z"), 0, 0, 0, 5, Ord("I")>>],
       [cls |-> "BackendMessage",
        bytes |-> <<Ord("S"), 0, 0, 0, 8, Ord("a"), 0, Ord("b"), 0>>],
       [cls |-> "FrontendMessage", bytes |-> <<Ord("X"), 0, 0, 0, 0>>],
       [cls |-> "FrontendMessage", bytes |-> <<Ord("C"), 0, 0, 0, 4>>],
       [cls |-> "FrontendMessage", bytes |-> <<0, 0, 0, 4, 0, 3, 0, 0>>],
       [cls |-> "BackendMessage", bytes |-> <<Ord("Z"), 0, 0, 0, 4>>],
       [cls |-> "BackendMessage", bytes |-> <<Ord("R"), 0, 0, 0, 4>>],
       [cls |-> "BackendMessage", bytes |-> <<Ord("D"), 0, 0, 0, 2>>] >>

\* A new message of one of the classes, and the bytes it will be given:
\* packet k and a tail.
InitBuffer ==
    /\ conn = [c \in Clients |-> "new"]
    /\ clientStack = <<>>
    /\ authenticationResponse = <<>>
    /\ transactionStatus = "None"
    /\ in_test = FALSE
    /\ dead = FALSE
    /\ dropMessages = <<>>
    /\ savepoints = [c \in Clients |-> <<>>]
    /\ delayed = <<>>
    /\ clock = 0
    /\ begun = [c \in Clients |-> 0]
    /\ toBackend = <<>>
    /\ toClient = NoWrite
    /\ InitReactor
    /\ LiveSession
    /\ \E k \in 1..Len(BufferMsgs) : \E t \in Trailing :
           /\ ev = Event("init", k, <<>>)
           /\ unread = BufferMsgs[k].bytes \o t
    /\ fed = <<>>
    /\ _message = <<NewMessage>>
    /\ delivered = <<>>
    /\ framing = "ok"

\* m.consume(data) with the next n bytes: append, then the reads of
\* parse_header, truncate and the reads of parse_body.  The message is kept
\* as the call left it, also when the call raised.
consumeBytes(n) ==
    LET r == consume_of(BufferMsgs[ev.client].cls, _message[1], Upto(unread, n))
    IN  /\ framing = "ok"
        /\ delivered = <<>>
        /\ n <= Len(unread)
        /\ unread' = From(unread, n)
        /\ fed' = fed \o Upto(unread, n)
        /\ framing' = IF r.err = "" THEN "ok" ELSE r.err
        /\ _message' = <<r.m>>
        /\ delivered' = IF r.done /\ r.err = "" THEN <<Parsed(r.m)>> ELSE <<>>
        /\ ev' = Event(IF r.err # "" THEN r.err ELSE IF r.done THEN "done" ELSE "more",
                       ev.client, r.extra)
        /\ UNCHANGED <<conn, clientStack, authenticationResponse, transactionStatus,
                       in_test, dead, dropMessages, savepoints, delayed, clock,
                       begun, toBackend, toClient, reactor, factory>>

NextBuffer == \E n \in 1..Len(unread) : consumeBytes(n)

SpecBuffer == InitBuffer /\ [][NextBuffer]_vars

\* C40: the read position of the buffer of every message is within the
\* buffer, 0 <= pos <= len(str_buf), after every call of consume, whatever
\* length the message declares.
C40_CursorInBuffer ==
    \A k \in 1..Len(_message) :
        /\ 0 <= _message[k].pos
        /\ _message[k].pos <= Len(_message[k].buf)

\* A DataRow that declares the length 2 is done without an exception: the
\* header's reads left pos at 5 and truncate cut the buffer to 3 bytes.
C40_Witness ==
    /\ ev.kind = "done"
    /\ BufferMsgs[ev.client].cls = "BackendMessage"
    /\ _message[1].type = "D"
    /\ _message[1].buf = <<Ord("D"), 0, 0>>
    /\ _message[1].pos = 5
    /\ delivered # <<>>
====
